---------------------------- MODULE Spec2Model ----------------------------
(***************************************************************************)
(* Verification model of nats-limiter-proxy: the wire-protocol parsers     *)
(* (ClientMessageParser in its fixed-buffer and reader/writer variants,    *)
(* NATSProxyParser), the RateLimitedWriter, the RateLimiterManager         *)
(* registry and the per-connection handlers.                               *)
(*                                                                         *)
(* A byte is a one-character string; a byte string is a sequence of them.  *)
(* Go slices b[lo:hi] are 0-based and half-open; Slice(b, lo, hi) is the   *)
(* same thing on a 1-based TLA+ sequence.                                  *)
(***************************************************************************)
EXTENDS Integers, Sequences, FiniteSets, TLC

VARIABLES
    frames,     \* the frames the client composed (ghost: structure of cin)
    cin,        \* the byte stream the client sends (flattening of frames)
    cpos,       \* number of bytes of cin the parser has read so far
    res,        \* "run" while ParseAndForward loops, else how it returned
    out,        \* bytes written to the destination, in order
    wlog,       \* one record per destination Write call (history)
    authLog,    \* one record per onUserAuthenticated callback (history)
    cmp,        \* ClientMessageParser (fixed buffer): state, as, drop, buffer, bufferPos
    rlw,        \* RateLimitedWriter: rateLimiter
    rlm,        \* RateLimiterManager: limiters
    buckets,    \* heap of *ratelimit.Bucket objects, by allocation order
    npp,        \* NATSProxyParser: state, as, payload, and the locals buf, username
    rwp,        \* ClientMessageParser (reader/writer variant): state, as, drop,
                \* rateLimiter, and the local buf
    now,        \* the wall clock, in ticks (Second ticks make one second)
    thr,        \* goroutines calling the RateLimiterManager: pc and locals
    mu,         \* RateLimiterManager.mu: the holders of the sync.RWMutex
    reg,        \* history of the registry: buckets made, handed out, removals
    conns,      \* HandleConnection goroutines: the closure variables of each
    flow,       \* a client-to-upstream flow seen at its Write calls
    hc,         \* one HandleConnection call: its two flows and its two sockets
    srv         \* the proxy process: its configuration, accept loop, connections

\* what each parser's actions leave alone
streamVars == <<frames, cin, cpos, res, out, wlog, authLog>>
notCMP == <<npp, rwp, thr, mu, reg, conns, flow, hc, srv>>
notNPP == <<cmp, rlw, rlm, buckets, rwp, now, thr, mu, reg, conns, flow, hc, srv>>
notRWP == <<cmp, rlw, npp, thr, mu, reg, conns, flow, hc, srv>>
notRLM == <<streamVars, cmp, rlw, npp, rwp, now, conns, flow, hc, srv>>
notConn == <<streamVars, cmp, rlw, rlm, npp, rwp, thr, mu, reg, flow, hc, srv>>
notFlow == <<streamVars, cmp, npp, rwp, thr, mu, reg, conns, hc, srv>>

---------------------------------------------------------------------------
(* Bounds of the model *)

BufSize == 24            \* stands for the 4096-byte fixed buffer
LineBufSize == 128       \* the same buffer, where CONNECT lines with a jwt must fit
MaxFrames == 2           \* frames per client stream
DefaultBandwidth == 7    \* config.DefaultBandwidth, tokens per second
Second == 1000           \* clock ticks per second (stands for the 1e9 ns of time.Second)
MaxLate == 1             \* ticks by which a Sleep may overshoot
NumThreads == 3          \* goroutines calling the RateLimiterManager
MaxCalls == 3            \* RateLimiterManager calls in one run
NumConns == 2            \* connections handled at the same time
MaxLines == 3            \* lines per connection
MaxTime == 20000         \* the clock's horizon, in milliseconds
MaxWritten == 3700       \* bytes a flow writes through one bucket
MaxIdles == 1            \* pauses of the client of a flow
MaxBytes == 2            \* bytes each peer of a connection sends

Threads == 1..NumThreads
Conns == 1..NumConns
AliceBandwidth == 2      \* config.Users["a"]
MaxReaders == 2          \* readers one stream is split into
MaxAcceptErrs == 1       \* Accept errors the listener returns

---------------------------------------------------------------------------
(* Byte strings *)

CR == "\r"
LF == "\n"
CRLF == <<CR, LF>>
NUL == "NUL"             \* the zero byte of a fresh Go array

Slice(b, lo, hi) == SubSeq(b, lo + 1, hi)

Digit == <<"0", "1", "2", "3", "4", "5", "6", "7", "8", "9">>
Digits == {Digit[i] : i \in 1..10}

NoBucket == 0            \* the nil *ratelimit.Bucket
EmptyUser == <<>>        \* the empty string ""

---------------------------------------------------------------------------
(* encoding/json: Unmarshal of a byte string into map[string]interface{},  *)
(* for objects whose values are strings without escapes or unsigned        *)
(* integers.  Anything else is reported as a decode error.                 *)


RECURSIVE SkipWS(_, _)
SkipWS(s, i) ==
    IF i <= Len(s) /\ s[i] \in {" ", "\t", CR, LF} THEN SkipWS(s, i + 1) ELSE i

\* index of the quote closing the string whose body starts at j, 0 if none
RECURSIVE StringEnd(_, _)
StringEnd(s, j) ==
    IF j > Len(s) THEN 0
    ELSE IF s[j] = "\"" THEN j
    ELSE IF s[j] \in {"\t", CR, LF, NUL, "\\"} THEN 0
    ELSE StringEnd(s, j + 1)

RECURSIVE DigitsEnd(_, _)
DigitsEnd(s, j) ==
    IF j <= Len(s) /\ s[j] \in Digits THEN DigitsEnd(s, j + 1) ELSE j

JSONFail == [ok |-> FALSE, obj |-> <<>>, next |-> 0]

\* a value starting at index i: [ok, val, next]
JSONValue(s, i) ==
    IF i > Len(s) THEN [ok |-> FALSE, val |-> <<>>, next |-> 0]
    ELSE IF s[i] = "\""
    THEN LET e == StringEnd(s, i + 1) IN
         IF e = 0 THEN [ok |-> FALSE, val |-> <<>>, next |-> 0]
         ELSE [ok |-> TRUE,
               val |-> [t |-> "string", v |-> SubSeq(s, i + 1, e - 1)],
               next |-> e + 1]
    ELSE IF s[i] \in Digits
    THEN LET e == DigitsEnd(s, i) IN
         IF s[i] = "0" /\ e > i + 1
         THEN [ok |-> FALSE, val |-> <<>>, next |-> 0]
         ELSE [ok |-> TRUE,
               val |-> [t |-> "number", v |-> SubSeq(s, i, e - 1)],
               next |-> e]
    ELSE [ok |-> FALSE, val |-> <<>>, next |-> 0]

\* members of an object, i at the first byte of a key; a repeated key keeps
\* its last value
RECURSIVE JSONMembers(_, _, _)
JSONMembers(s, i, obj) ==
    LET k == JSONValue(s, i) IN
    IF ~k.ok \/ k.val.t # "string" THEN JSONFail
    ELSE LET c == SkipWS(s, k.next) IN
         IF c > Len(s) \/ s[c] # ":" THEN JSONFail
         ELSE LET v == JSONValue(s, SkipWS(s, c + 1)) IN
              IF ~v.ok THEN JSONFail
              ELSE LET d == SkipWS(s, v.next)
                       obj2 == (k.val.v :> v.val) @@ obj
                   IN
                   IF d > Len(s) THEN JSONFail
                   ELSE IF s[d] = "}"
                   THEN [ok |-> TRUE, obj |-> obj2, next |-> d + 1]
                   ELSE IF s[d] = ","
                   THEN JSONMembers(s, SkipWS(s, d + 1), obj2)
                   ELSE JSONFail

\* json.Unmarshal(arg, &obj): [ok, obj]
JSONUnmarshal(s) ==
    LET i == SkipWS(s, 1) IN
    IF i > Len(s) \/ s[i] # "{" THEN [ok |-> FALSE, obj |-> <<>>]
    ELSE LET j == SkipWS(s, i + 1)
             r == IF j <= Len(s) /\ s[j] = "}"
                  THEN [ok |-> TRUE, obj |-> <<>>, next |-> j + 1]
                  ELSE JSONMembers(s, j, <<>>)
         IN
         IF r.ok /\ SkipWS(s, r.next) > Len(s)
         THEN [ok |-> TRUE, obj |-> r.obj]
         ELSE [ok |-> FALSE, obj |-> <<>>]

\* the Go type assertion obj[key].(string)
IsStringField(obj, key) == key \in DOMAIN obj /\ obj[key].t = "string"

\* the member names the program looks up
Key ==
    [user |-> <<"u", "s", "e", "r">>,
     jwt |-> <<"j", "w", "t">>,
     name |-> <<"n", "a", "m", "e">>,
     sub |-> <<"s", "u", "b">>]

---------------------------------------------------------------------------
(* github.com/golang-jwt/jwt: ParseWithClaims with a key function that     *)
(* returns no key.  The token is split at dots, header and claims segments *)
(* are base64url-decoded (no padding) and JSON-decoded; the signature is   *)
(* never looked at by the callers, which ignore the returned error.        *)

Base64URL ==
    <<"A", "B", "C", "D", "E", "F", "G", "H", "I", "J", "K", "L", "M", "N", "O", "P",
      "Q", "R", "S", "T", "U", "V", "W", "X", "Y", "Z", "a", "b", "c", "d", "e", "f",
      "g", "h", "i", "j", "k", "l", "m", "n", "o", "p", "q", "r", "s", "t", "u", "v",
      "w", "x", "y", "z", "0", "1", "2", "3", "4", "5", "6", "7", "8", "9", "-", "_">>

\* the bytes 0x20..0x7e ("BQ" is the backquote 0x60)
Ascii ==
    <<" ", "!", "\"", "#", "$", "%", "&", "'", "(", ")", "*", "+", ",", "-", ".", "/",
      "0", "1", "2", "3", "4", "5", "6", "7", "8", "9", ":", ";", "<", "=", ">", "?",
      "@", "A", "B", "C", "D", "E", "F", "G", "H", "I", "J", "K", "L", "M", "N", "O",
      "P", "Q", "R", "S", "T", "U", "V", "W", "X", "Y", "Z", "[", "\\", "]", "^", "_",
      "BQ", "a", "b", "c", "d", "e", "f", "g", "h", "i", "j", "k", "l", "m", "n", "o",
      "p", "q", "r", "s", "t", "u", "v", "w", "x", "y", "z", "{", "|", "}", "~">>

B64Val(c) == (CHOOSE i \in 1..64 : Base64URL[i] = c) - 1
ByteChar(code) == IF code >= 32 /\ code <= 126 THEN Ascii[code - 31] ELSE NUL

\* base64.RawURLEncoding.DecodeString on the groups starting at index i
RECURSIVE B64Groups(_, _)
B64Groups(s, i) ==
    LET n == Len(s) - i + 1 IN
    IF n <= 0 THEN <<>>
    ELSE IF n >= 4
    THEN LET w == B64Val(s[i]) * 262144 + B64Val(s[i + 1]) * 4096
                  + B64Val(s[i + 2]) * 64 + B64Val(s[i + 3])
         IN <<ByteChar(w \div 65536), ByteChar((w \div 256) % 256),
              ByteChar(w % 256)>> \o B64Groups(s, i + 4)
    ELSE IF n = 3
    THEN LET w == (B64Val(s[i]) * 4096 + B64Val(s[i + 1]) * 64
                   + B64Val(s[i + 2])) \div 4
         IN <<ByteChar(w \div 256), ByteChar(w % 256)>>
    ELSE LET w == (B64Val(s[i]) * 64 + B64Val(s[i + 1])) \div 16
         IN <<ByteChar(w)>>

DecodeSegment(s) ==
    IF (\E i \in 1..Len(s) : s[i] \notin {Base64URL[k] : k \in 1..64}) \/ Len(s) % 4 = 1
    THEN [ok |-> FALSE, bytes |-> <<>>]
    ELSE [ok |-> TRUE, bytes |-> B64Groups(s, 1)]

\* strings.Split(tokenString, ".")
RECURSIVE SplitDot(_, _, _)
SplitDot(s, i, cur) ==
    IF i > Len(s) THEN <<cur>>
    ELSE IF s[i] = "." THEN <<cur>> \o SplitDot(s, i + 1, <<>>)
    ELSE SplitDot(s, i + 1, Append(cur, s[i]))

\* what the callers can see of the returned *jwt.Token: whether it is
\* non-nil, and its claims (empty unless the claims segment decoded)
JWTParse(tok) ==
    LET parts == SplitDot(tok, 1, <<>>) IN
    IF Len(parts) # 3 THEN [nonNil |-> FALSE, hasClaims |-> FALSE, claims |-> <<>>]
    ELSE LET h == DecodeSegment(parts[1]) IN
         IF ~h.ok \/ ~JSONUnmarshal(h.bytes).ok
         THEN [nonNil |-> TRUE, hasClaims |-> FALSE, claims |-> <<>>]
         ELSE LET c == DecodeSegment(parts[2])
                  j == JSONUnmarshal(c.bytes)
              IN [nonNil |-> TRUE, hasClaims |-> TRUE,
                  claims |-> IF c.ok /\ j.ok THEN j.obj ELSE <<>>]

\* the claims lookups on the parsed token: "name" first, then "sub"
ClaimsUsername(token) ==
    IF token.nonNil /\ token.hasClaims
    THEN IF IsStringField(token.claims, Key.name) THEN token.claims[Key.name].v
         ELSE IF IsStringField(token.claims, Key.sub) THEN token.claims[Key.sub].v
         ELSE EmptyUser
    ELSE EmptyUser

extractUsernameFromJWT(jwtToken) == ClaimsUsername(JWTParse(jwtToken))


---------------------------------------------------------------------------
(* The client's stream: a sequence of frames drawn from a library.  A frame *)
(* is a control line and, for a publish, a payload followed by CR LF.      *)

Kw ==
    [CONNECT |-> <<"C", "O", "N", "N", "E", "C", "T">>,
     PUB |-> <<"P", "U", "B">>,
     HPUB |-> <<"H", "P", "U", "B">>,
     PING |-> <<"P", "I", "N", "G">>,
     PONG |-> <<"P", "O", "N", "G">>,
     SUB |-> <<"S", "U", "B">>,
     UNSUB |-> <<"U", "N", "S", "U", "B">>,
     INFO |-> <<"I", "N", "F", "O">>]

UserA == <<"a">>
UserB == <<"b">>

QuotedStr(v) == <<"\"">> \o v \o <<"\"">>

ControlFrame(line) ==
    [line |-> line \o CRLF, payload |-> <<>>, pub |-> FALSE, wf |-> TRUE]
PubFrame(args, payload) ==
    [line |-> args \o CRLF, payload |-> payload, pub |-> TRUE, wf |-> TRUE]
JunkFrame(bytes) ==
    [line |-> bytes, payload |-> <<>>, pub |-> FALSE, wf |-> FALSE]

\* CONNECT {"user":"u"}
ConnectLine(u) ==
    Kw.CONNECT \o <<" ", "{">> \o QuotedStr(Key.user) \o <<":">> \o QuotedStr(u) \o <<"}">>

\* a payload that spells an empty line and a whole CONNECT line
EvilPayload == CRLF \o ConnectLine(UserB) \o CRLF
LongPayload == [i \in 1..(BufSize + 6) |-> "x"]

FrameBytes(f) == f.line \o (IF f.pub THEN f.payload \o CRLF ELSE <<>>)

RECURSIVE Flatten(_)
Flatten(fs) == IF fs = <<>> THEN <<>> ELSE FrameBytes(Head(fs)) \o Flatten(Tail(fs))

\* decimal representation of n < 100, as strconv.Itoa
Itoa(n) == IF n < 10 THEN <<Digit[n + 1]>> ELSE <<Digit[(n \div 10) + 1], Digit[(n % 10) + 1]>>

\* a username that makes the CONNECT line longer than the buffer
LongUser == [i \in 1..(BufSize - 18) |-> "a"]

ClientFrames ==
    { ControlFrame(ConnectLine(UserA)),
      ControlFrame(ConnectLine(LongUser)),
      ControlFrame(ConnectLine(UserB)),
      ControlFrame(ConnectLine(EmptyUser)),
      ControlFrame(Kw.PING),
      ControlFrame(Kw.SUB \o <<" ", "s", " ", "1">>),
      ControlFrame(Kw.INFO \o <<" ", "{", "}">>),
      PubFrame(Kw.PUB \o <<" ", "s", " ", "2">>, <<"h", "i">>),
      PubFrame(Kw.HPUB \o <<" ", "s", " ", "0", " ", "2">>, <<"h", "i">>),
      PubFrame(Kw.PUB \o <<" ", "s", " ">> \o Itoa(Len(EvilPayload)), EvilPayload),
      PubFrame(Kw.PUB \o <<" ", "s", " ">> \o Itoa(Len(LongPayload)), LongPayload),
      JunkFrame(<<"x", LF>>),
      JunkFrame(<<"a", CR, "b", LF>>) }


\* positions of cin (1-based) that lie inside the declared payload of a
\* publish frame, or in the CR LF that closes it
RECURSIVE PayloadPositions(_, _)
PayloadPositions(fs, base) ==
    IF fs = <<>> THEN {}
    ELSE LET f == Head(fs)
             n == Len(FrameBytes(f))
         IN (IF f.pub THEN (base + Len(f.line) + 1)..(base + n) ELSE {})
            \cup PayloadPositions(Tail(fs), base + n)

---------------------------------------------------------------------------
(* The token bucket of github.com/juju/ratelimit as the program uses it:   *)
(* NewBucketWithRate (part_006) and Wait (RateLimitedWriter.Write, the     *)
(* OP_RATE_LIMIT case).  A bucket is an index into the heap `buckets`.     *)
(* Tokens are added `quantum` at a time every `fillInterval` ticks since   *)
(* startTime; availableTokens goes negative while takers are waiting.      *)
(* `taken` is a history field: the tokens requested through Wait so far.   *)


\* the next quantum tried by NewBucketWithRate: 11/10 of the last, at least +1
nextQuantum(q) ==
    LET q1 == (q * 11) \div 10 IN IF q1 = q THEN q1 + 1 ELSE q1

\* |Rate() - rate| / rate <= rateMargin (1%), with Rate() = Second*q/fi
WithinRateMargin(q, fi, rate) ==
    LET diff == IF Second * q >= rate * fi THEN Second * q - rate * fi
                ELSE rate * fi - Second * q
    IN diff * 100 <= rate * fi

\* the quantum search: fillInterval is Second*quantum/rate truncated to a
\* whole number of ticks
RECURSIVE FindQuantum(_, _)
FindQuantum(q, rate) ==
    LET fi == (Second * q) \div rate IN
    IF fi > 0 /\ WithinRateMargin(q, fi, rate) THEN q
    ELSE FindQuantum(nextQuantum(q), rate)

\* ratelimit.NewBucketWithRate(rate, capacity) called at time t
NewBucketWithRate(rate, capacity, t) ==
    LET q == FindQuantum(1, rate) IN
    [startTime |-> t, capacity |-> capacity, quantum |-> q,
     fillInterval |-> (Second * q) \div rate,
     availableTokens |-> capacity, latestTick |-> 0, taken |-> 0]

\* Bucket.Take(count) at time t: [tb, wait], the bucket afterwards and the
\* time the caller has to sleep
currentTick(tb, t) == (t - tb.startTime) \div tb.fillInterval

\* Bucket.adjustavailableTokens(tick)
adjustavailableTokens(tb, tick) ==
    [tb EXCEPT !.latestTick = tick,
               !.availableTokens =
                   IF @ >= tb.capacity THEN @
                   ELSE IF @ + (tick - tb.latestTick) * tb.quantum > tb.capacity
                   THEN tb.capacity
                   ELSE @ + (tick - tb.latestTick) * tb.quantum]

\* Bucket.Available() at time t: [tb, ret]
Available(tb, t) ==
    LET a == adjustavailableTokens(tb, currentTick(tb, t)) IN
    [tb |-> a, ret |-> a.availableTokens]

\* a bucket that grants a count only once it holds that many tokens: a
\* count above the capacity is due after the clock's horizon
TakeWhenBucketHolds(tb, t, count) ==
    LET tick == currentTick(tb, t)
        a == adjustavailableTokens(tb, tick)
        avail == a.availableTokens - count
        endTick == tick + (tb.quantum - 1 - avail) \div tb.quantum
    IN IF count <= 0 THEN [tb |-> tb, wait |-> 0]
       ELSE [tb |-> [a EXCEPT !.availableTokens = avail, !.taken = @ + count],
             wait |-> IF count > tb.capacity THEN MaxTime + 1 - t
                      ELSE IF avail >= 0 THEN 0
                      ELSE tb.startTime + endTick * tb.fillInterval - t]

Take(tb, t, count) ==
    LET tick == currentTick(tb, t)
        a == adjustavailableTokens(tb, tick)
        avail == a.availableTokens - count
        endTick == tick + (tb.quantum - 1 - avail) \div tb.quantum
    IN IF count <= 0 THEN [tb |-> tb, wait |-> 0]
       ELSE [tb |-> [a EXCEPT !.availableTokens = avail, !.taken = @ + count],
             wait |-> IF avail >= 0 THEN 0
                      ELSE tb.startTime + endTick * tb.fillInterval - t]

\* how long a Sleep may last beyond the requested duration
Lateness == {0, MaxLate}

\* Bucket.Wait(count) on a machine record: Take, then Sleep
Sleep(m, r) ==
    [m EXCEPT !.buckets[m.rateLimiter] = r.tb,
              !.now = @ + r.wait + (IF r.wait > 0 THEN m.late ELSE 0)]

Wait(m, count) == Sleep(m, Take(m.buckets[m.rateLimiter], m.now, count))

---------------------------------------------------------------------------
(* RateLimiterManager, called from one goroutine (part_006). *)

ConfigUsers == (UserA :> AliceBandwidth)

\* a registry that sizes every bucket by the default bandwidth
getBandwidthDefaultOnly(username) == DefaultBandwidth

\* getBandwidthForUser returns the bandwidth limit for a specific user
getBandwidthForUser(username) ==
    IF username \in DOMAIN ConfigUsers THEN ConfigUsers[username]
    ELSE DefaultBandwidth

\* "Create new rate limiter for this user" at time t: [limiters, buckets, ret]
CreateLimiter(limiters, heap, username, t) ==
    LET limiter == Len(heap) + 1
        bandwidth == getBandwidthForUser(username)
    IN [limiters |-> (username :> limiter) @@ limiters,
        buckets |-> Append(heap, NewBucketWithRate(bandwidth, bandwidth, t)),
        ret |-> limiter]

\* GetLimiter run to completion at time t: [limiters, buckets, ret]
GetLimiter(limiters, heap, username, t) ==
    IF username = EmptyUser
    THEN [limiters |-> limiters, buckets |-> heap, ret |-> NoBucket]
    ELSE IF username \in DOMAIN limiters
    THEN [limiters |-> limiters, buckets |-> heap, ret |-> limiters[username]]
    ELSE CreateLimiter(limiters, heap, username, t)


---------------------------------------------------------------------------
(* ClientMessageParser with the fixed buffer and its RateLimitedWriter     *)
(* (internal/server/parser.go, first definition).  The code of one loop    *)
(* iteration is composed from functions on a machine record m that holds   *)
(* the parser's fields, the writer, the registry, the destination and the  *)
(* histories; m.err is "write" once a destination Write has failed.        *)

Machine ==
    [state |-> cmp.state, as |-> cmp.as, drop |-> cmp.drop,
     buffer |-> cmp.buffer, bufferPos |-> cmp.bufferPos,
     rateLimiter |-> rlw.rateLimiter, limiters |-> rlm.limiters,
     buckets |-> buckets, out |-> out, wlog |-> wlog, authLog |-> authLog,
     pos |-> cpos + 1, err |-> "", now |-> now, late |-> 0]

\* RateLimitedWriter.Write; ok says whether the destination accepts the data
\* rlw.writer.Write(data) on the machine w reached from m by the Wait, if any
WriterWrite(m, w, data, ok) ==
    LET waited == IF m.rateLimiter # NoBucket
                  THEN w.buckets[m.rateLimiter].taken - m.buckets[m.rateLimiter].taken
                  ELSE 0
    IN [w EXCEPT !.out = IF ok THEN @ \o data ELSE @,
                 !.err = IF ok THEN @ ELSE "write",
                 !.wlog = Append(@, [n |-> Len(data), limiter |-> m.rateLimiter,
                                     waited |-> waited, ok |-> ok, pos |-> m.pos,
                                     at |-> w.now])]

RateLimitedWrite(m, data, ok) ==
    WriterWrite(m, IF m.rateLimiter # NoBucket THEN Wait(m, Len(data)) ELSE m,
                data, ok)

\* "Buffer full - flush it with rate limiting"
\* after a flush: "return err" on a failed Write, else c.bufferPos = 0
Flushed(w) == IF w.err # "" THEN w ELSE [w EXCEPT !.bufferPos = 0]

\* a full buffer that is reused without being written
FlushFullDropped(m, ok) ==
    IF m.bufferPos >= Len(m.buffer) THEN [m EXCEPT !.bufferPos = 0] ELSE m

FlushFull(m, ok) ==
    IF m.bufferPos >= Len(m.buffer)
    THEN Flushed(RateLimitedWrite(m, m.buffer, ok))
    ELSE m

\* c.buffer[c.bufferPos] = b; c.bufferPos++
StoreByte(m, b) ==
    [m EXCEPT !.buffer[m.bufferPos + 1] = b, !.bufferPos = @ + 1]

\* c.rateLimitedWriter.UpdateRateLimiter(limiter), g what GetLimiter returned
UpdateRateLimiter(m, user, g) ==
    [m EXCEPT !.limiters = g.limiters, !.buckets = g.buckets,
              !.rateLimiter = g.ret,
              !.authLog = Append(@, [user |-> user, pos |-> m.pos, at |-> m.now])]

processUser(m, user) ==
    UpdateRateLimiter(m, user, GetLimiter(m.limiters, m.buckets, user, m.now))

\* the keyword states that accept one letter in either case
KeywordStep ==
    [OP_H |-> [accept |-> {"P", "p"}, next |-> "OP_HP"],
     OP_HP |-> [accept |-> {"U", "u"}, next |-> "OP_HPU"],
     OP_HPU |-> [accept |-> {"B", "b"}, next |-> "OP_HPUB"],
     OP_P |-> [accept |-> {"U", "u"}, next |-> "OP_PU"],
     OP_PU |-> [accept |-> {"B", "b"}, next |-> "OP_PUB"],
     OP_C |-> [accept |-> {"O", "o"}, next |-> "OP_CO"],
     OP_CO |-> [accept |-> {"N", "n"}, next |-> "OP_CON"],
     OP_CON |-> [accept |-> {"N", "n"}, next |-> "OP_CONN"],
     OP_CONN |-> [accept |-> {"E", "e"}, next |-> "OP_CONNE"],
     OP_CONNE |-> [accept |-> {"C", "c"}, next |-> "OP_CONNEC"],
     OP_CONNEC |-> [accept |-> {"T", "t"}, next |-> "OP_CONNECT"]]

OpStart(b) ==
    IF b \in {"P", "p"} THEN "OP_P"
    ELSE IF b \in {"H", "h"} THEN "OP_H"
    ELSE IF b \in {"C", "c"} THEN "OP_C"
    ELSE "OP_IGNORE"

\* decoding of the CONNECT argument and identity extraction
\* "if user := c.extractUsernameFromJWT(jwtToken); user != """
\* processUser with whatever extractUsernameFromJWT returned, "" included
JWTIdentityUnchecked(m, user) == processUser(m, user)

JWTIdentity(m, user) == IF user # EmptyUser THEN processUser(m, user) ELSE m

\* the jwt member looked at before the user member
ObjectIdentityJwtFirst(m, arg, j) ==
    IF Len(arg) > 0 /\ j.ok
    THEN IF IsStringField(j.obj, Key.jwt)
         THEN JWTIdentity(m, extractUsernameFromJWT(j.obj[Key.jwt].v))
         ELSE IF IsStringField(j.obj, Key.user)
         THEN processUser(m, j.obj[Key.user].v)
         ELSE m
    ELSE m

\* the branches on the decoded object j
ObjectIdentity(m, arg, j) ==
    IF Len(arg) > 0 /\ j.ok
    THEN IF IsStringField(j.obj, Key.user)
         THEN processUser(m, j.obj[Key.user].v)
         ELSE IF IsStringField(j.obj, Key.jwt)
         THEN JWTIdentity(m, extractUsernameFromJWT(j.obj[Key.jwt].v))
         ELSE m
    ELSE m

ConnectIdentity(m, arg) == ObjectIdentity(m, arg, JSONUnmarshal(arg))

\* case CONNECT_ARG
ConnectArg(m, b) ==
    IF b = CR THEN [m EXCEPT !.drop = 1]
    ELSE IF b = LF /\ m.drop > 0
    THEN [ConnectIdentity(m, IF m.as < m.bufferPos - 2
                             THEN Slice(m.buffer, m.as, m.bufferPos - 2)
                             ELSE <<>>)
            EXCEPT !.drop = 0, !.state = "OP_START"]
    ELSE m

\* switch c.state
OnByte(m, b) ==
    CASE m.state = "OP_START" -> [m EXCEPT !.state = OpStart(b)]
      [] m.state \in DOMAIN KeywordStep ->
           [m EXCEPT !.state = IF b \in KeywordStep[m.state].accept
                               THEN KeywordStep[m.state].next
                               ELSE "OP_IGNORE"]
      [] m.state \in {"OP_HPUB", "OP_PUB"} -> [m EXCEPT !.state = "OP_IGNORE"]
      [] m.state = "OP_CONNECT" ->
           IF b \in {" ", "\t"} THEN m
           ELSE [m EXCEPT !.state = "CONNECT_ARG", !.as = m.bufferPos - 1]
      [] m.state = "CONNECT_ARG" -> ConnectArg(m, b)
      [] OTHER -> m

\* FlushBoundary without "c.bufferPos = 0": the flushed bytes stay buffered
FlushBoundaryKeepsBuffer(m, ok) ==
    RateLimitedWrite(m, Slice(m.buffer, 0, m.bufferPos), ok)

\* "Message boundary reached - flush buffer to ensure message integrity"
FlushBoundary(m, ok) ==
    Flushed(RateLimitedWrite(m, Slice(m.buffer, 0, m.bufferPos), ok))

\* the CR/LF bookkeeping after the switch
Terminator(m, b, ok) ==
    LET m1 == IF m.drop = 0 /\ b = CR THEN [m EXCEPT !.drop = 1] ELSE m IN
    IF m1.drop = 1 /\ b = LF
    THEN FlushBoundary([m1 EXCEPT !.drop = 0, !.state = "OP_START"], ok)
    ELSE m1

\* one iteration of the loop for a byte that was read
AfterFlushFull(m1, b, ok) ==
    IF m1.err # "" THEN m1
    ELSE Terminator(OnByte(StoreByte(m1, b), b), b, ok)

ParseByte(m, b, oks) == AfterFlushFull(FlushFull(m, oks[1]), b, oks[2])

\* an io.EOF branch that returns nil without flushing
FlushEOFSkipped(m, ok) == m

\* "Flush any remaining data in buffer" at io.EOF
FlushEOF(m, ok) ==
    IF m.bufferPos > 0
    THEN Flushed(RateLimitedWrite(m, Slice(m.buffer, 0, m.bufferPos), ok))
    ELSE m

Commit(m) ==
    /\ cmp' = [state |-> m.state, as |-> m.as, drop |-> m.drop,
               buffer |-> m.buffer, bufferPos |-> m.bufferPos]
    /\ rlw' = [rateLimiter |-> m.rateLimiter]
    /\ rlm' = [limiters |-> m.limiters]
    /\ buckets' = m.buckets
    /\ out' = m.out
    /\ wlog' = m.wlog
    /\ authLog' = m.authLog
    /\ now' = m.now

\* reader.ReadByte() returns the next byte of the stream
CMPReadByte ==
    /\ res = "run"
    /\ cpos < Len(cin)
    /\ \E oks \in [1..2 -> BOOLEAN], late \in Lateness :
       \E m \in {ParseByte([Machine EXCEPT !.late = late], cin[cpos + 1], oks)} :
         /\ Commit(m)
         /\ res' = IF m.err # "" THEN "writeErr" ELSE "run"
    /\ cpos' = cpos + 1
    /\ UNCHANGED <<frames, cin, notCMP>>

\* reader.ReadByte() returns io.EOF: the client closed after cpos bytes
CMPReadEOF ==
    /\ res = "run"
    /\ \E ok \in BOOLEAN, late \in Lateness :
       \E m \in {FlushEOF([Machine EXCEPT !.late = late], ok)} :
         /\ Commit(m)
         /\ res' = IF m.err # "" THEN "writeErr" ELSE "nil"
    /\ UNCHANGED <<frames, cin, cpos, notCMP>>

\* reader.ReadByte() returns another error
CMPReadErr ==
    /\ res = "run"
    /\ res' = "readErr"
    /\ UNCHANGED <<frames, cin, cpos, out, wlog, authLog, cmp, rlw, rlm, buckets, now, notCMP>>

CMPBuffer(size) ==
    [state |-> "OP_START", as |-> 0, drop |-> 0,
     buffer |-> [i \in 1..size |-> NUL], bufferPos |-> 0]

CMPInitial == CMPBuffer(BufSize)

StreamInit(lib) ==
    /\ frames \in UNION {[1..n -> lib] : n \in 1..MaxFrames}
    /\ cin = Flatten(frames)
    /\ cpos = 0
    /\ res = "run"
    /\ out = <<>>
    /\ wlog = <<>>
    /\ authLog = <<>>

NPPInitial ==
    [state |-> "psOpStart", as |-> 0, payload |-> 0, buf |-> <<>>,
     username |-> EmptyUser]

RWPInitial ==
    [state |-> "OP_START", as |-> 0, drop |-> 0, rateLimiter |-> NoBucket,
     buf |-> <<>>, call |-> 1]

\* a thread that is not inside a RateLimiterManager method; wake is the time
\* its Wait on a bucket ends
ThreadIdle ==
    [pc |-> "idle", username |-> EmptyUser, limiter |-> NoBucket,
     exists |-> FALSE, ret |-> NoBucket, stats |-> <<>>, wake |-> 0]

\* the closure variables of HandleConnection's client-to-upstream goroutine
\* (rateLimiter, currentUser), the parser's username cache, and when the
\* goroutine wakes from a Sleep; kept counts the callbacks that carried the
\* current user after its bucket had been debited
ConnInitial ==
    [rateLimiter |-> NoBucket, currentUser |-> EmptyUser, username |-> EmptyUser,
     wake |-> 0, lines |-> 0, kept |-> 0]

FlowInitial ==
    [res |-> "run", written |-> 0, resolvedAt |-> 0, lastWrite |-> 0, idles |-> 0]

\* the state of everything right after construction: NewRateLimiterManager,
\* NewClientMessageParser, the zero values of the parser structs
\* the three programs of the repository that handle a connection:
\* internal/server/proxy.go, part_004, and the root proxy.go
Programs == {"server", "part_004", "root"}

\* a connection that Accept has just handed to HandleConnection of program p
HCAccepted(p) ==
    [prog |-> p, handler |-> "dial", cs |-> "none",
     client |-> "open", upstream |-> "none", peerC |-> "open", peerU |-> "open",
     inC |-> 0, inU |-> 0, dials |-> 0,
     fromClient |-> 0, toClient |-> 0, toUpstream |-> 0,
     csLimiter |-> NoBucket, scLimiter |-> NoBucket, scTaken |-> 0, scSlept |-> 0]

\* a connection slot of the proxy process before Accept returns it
SrvConn ==
    [handler |-> "none", client |-> "none", upstream |-> "none", csDone |-> FALSE,
     currentUser |-> EmptyUser, rateLimiter |-> NoBucket]

\* the process before NewProxy, started on configuration file `file`
SrvNew(file) ==
    [file |-> file, load |-> "none",
     cfg |-> [DefaultBandwidth |-> 0, Users |-> <<>>],
     proc |-> "new", acceptErrs |-> 0,
     cs |-> [c \in Conns |-> SrvConn]]

\* a configuration file as the YAML decoder sees it: whether it opens and
\* decodes, the value of default_bandwidth (<<n>>, or <<>> when the key is
\* missing) and the entries of users (none when the key is missing)
ConfigFile(status, default, users) ==
    [status |-> status, default_bandwidth |-> default, users |-> users]

SrvInitial ==
    SrvNew(ConfigFile("ok", <<DefaultBandwidth>>, (UserA :> AliceBandwidth)))

ConstructedAll(parser, conn, server) ==
    /\ cmp = parser
    /\ hc = conn
    /\ srv = server
    /\ rlw = [rateLimiter |-> NoBucket]
    /\ rlm = [limiters |-> <<>>]
    /\ buckets = <<>>
    /\ npp = NPPInitial
    /\ rwp = RWPInitial
    /\ now = 0
    /\ thr = [t \in Threads |-> ThreadIdle]
    /\ mu = [readers |-> {}, writer |-> 0]
    /\ reg = [made |-> {}, handed |-> {}, removed |-> {}, calls |-> 0]
    /\ conns = [c \in Conns |-> ConnInitial]
    /\ flow = FlowInitial

ConstructedWith(parser, conn) == ConstructedAll(parser, conn, SrvInitial)

Constructed == ConstructedWith(CMPInitial, HCAccepted("server"))

Init ==
    /\ StreamInit(ClientFrames)
    /\ Constructed

vars == <<frames, cin, cpos, res, out, wlog, authLog, cmp, rlw, rlm, buckets, npp, rwp,
          now, thr, mu, reg, conns, flow, hc, srv>>

Next == CMPReadByte \/ CMPReadEOF \/ CMPReadErr

Spec == Init /\ [][Next]_vars

\* the bytes read so far
Consumed == SubSeq(cin, 1, cpos)


---------------------------------------------------------------------------
(* Claims about the fixed-buffer ClientMessageParser *)

WellFormedStream == \A i \in 1..Len(frames) : frames[i].wf

\* C1: when a stream of complete CRLF-terminated frames has been read to
\* end-of-stream and ParseAndForward has returned nil, the concatenation of
\* its writes to the destination is the input, byte for byte and in order.
C1_VerbatimForwarding ==
    (WellFormedStream /\ res = "nil" /\ cpos = Len(cin)) => out = cin

\* a stream of at least two complete frames, one of them a publish with its
\* payload, forwarded in several writes and read to end-of-stream
C1_Witness ==
    /\ WellFormedStream /\ res = "nil" /\ cpos = Len(cin)
    /\ Len(frames) >= 2
    /\ \E i \in 1..Len(frames) : frames[i].pub
    /\ Len(wlog) >= 3
    /\ out = cin

\* C2: for every input, terminated by CR LF or not, when ParseAndForward
\* returns at end-of-stream the number of bytes written equals the number of
\* bytes read.
C2_ByteCountPreserved ==
    res = "nil" => Len(out) = cpos

\* end-of-stream in the middle of a line: the last bytes read are not CR LF
\* and were flushed by the io.EOF branch
C2_Witness ==
    /\ res = "nil"
    /\ cpos >= 2
    /\ SubSeq(cin, cpos - 1, cpos) # CRLF
    /\ Len(wlog) >= 2
    /\ Len(out) = cpos

\* C5: no identity is resolved (processUser is not called, the active rate
\* limiter is not changed) while the parser reads a byte of a declared
\* PUB/HPUB payload or of the CR LF that closes it.
C5_PayloadNeverInterpreted ==
    WellFormedStream =>
        \A i \in 1..Len(authLog) :
            authLog[i].pos \notin PayloadPositions(frames, 0)

\* C18: a connection on which no CONNECT frame is received never creates a
\* token bucket and never adds an entry to the registry, whatever other
\* frames it sends.
C18_NoBucketWithoutConnect ==
    (\A i \in 1..Len(frames) :
        \/ Len(frames[i].line) < Len(Kw.CONNECT)
        \/ SubSeq(frames[i].line, 1, Len(Kw.CONNECT)) # Kw.CONNECT)
        => (buckets = <<>> /\ rlm.limiters = <<>>)

\* C21: on an authenticated flow, frames that are not publishes (PING, SUB,
\* INFO) pass without rate limiting: when the client sends no PUB/HPUB
\* frame, no bucket gives more tokens than the bytes of the CONNECT frames.
C21_ControlFramesUnmetered ==
    LET IsConnect(f) == Len(f.line) >= Len(Kw.CONNECT)
                        /\ SubSeq(f.line, 1, Len(Kw.CONNECT)) = Kw.CONNECT
    IN (\A i \in 1..Len(frames) : frames[i].wf /\ ~frames[i].pub)
        => \A b \in 1..Len(buckets) :
               buckets[b].taken <= Len(Flatten(SelectSeq(frames, IsConnect)))

\* C23: in every reachable state of every token bucket 0 <= available <=
\* capacity: no consume issued by the flush path, whose size may exceed the
\* capacity, drives available below zero, and no refill raises it above
\* capacity.
C23_AvailableWithinBounds ==
    \A b \in 1..Len(buckets) :
        /\ 0 <= buckets[b].availableTokens
        /\ buckets[b].availableTokens <= buckets[b].capacity

\* C33: bufferPos stays within 0..BufSize; a byte that arrives when BufSize
\* bytes are buffered makes exactly those bytes one write, after which the
\* new byte is the buffer's first byte (or, being the line feed that ends
\* the frame, is written in turn); and while the writes succeed the bytes
\* written followed by the bytes buffered are the bytes read, so a frame
\* longer than the buffer is forwarded intact.
C33_BufferFullFlush ==
    /\ [](/\ cmp.bufferPos \in 0..BufSize
          /\ (res \in {"run", "nil"} /\ \A i \in 1..Len(wlog) : wlog[i].ok)
             => out \o Slice(cmp.buffer, 0, cmp.bufferPos) = Consumed)
    /\ [][(cmp.bufferPos = BufSize /\ cpos' = cpos + 1 /\ res' = "run")
            => /\ Len(wlog') > Len(wlog)
               /\ wlog'[Len(wlog) + 1].n = BufSize
               /\ SubSeq(out', 1, Len(out) + BufSize) = out \o cmp.buffer
               /\ \/ /\ Len(wlog') = Len(wlog) + 1
                     /\ cmp'.bufferPos = 1
                     /\ cmp'.buffer[1] = cin[cpos']
                  \/ /\ Len(wlog') = Len(wlog) + 2
                     /\ cmp'.bufferPos = 0
                     /\ out' = out \o cmp.buffer \o <<cin[cpos']>>]_vars

\* a frame longer than the buffer has been read to end-of-stream: it went
\* out in several writes, one of them a full buffer, and arrived intact
C33_Witness ==
    /\ res = "nil" /\ cpos = Len(cin)
    /\ \E i \in 1..Len(frames) : Len(FrameBytes(frames[i])) > BufSize
    /\ \E i \in 1..Len(wlog) : wlog[i].n = BufSize
    /\ \A i \in 1..Len(wlog) : wlog[i].ok
    /\ out = cin

\* C11: on one connection the active bucket reference of the client-to-
\* upstream flow is swapped exactly once: after the swap to a per-user bucket
\* at the first resolved identity, no later frame (a further CONNECT with the
\* same or another user included) changes the reference again.
C11_BucketSwappedOnce ==
    [][rlw.rateLimiter # NoBucket => rlw.rateLimiter' = rlw.rateLimiter]_vars

\* C12: until an identity is resolved the active bucket is the default-
\* bandwidth bucket: every flush made before the first resolved identity has
\* consumed its length from a bucket of rate and capacity DefaultBandwidth.
C12_DefaultBucketBeforeIdentity ==
    LET Resolved(pos) ==
            \E j \in 1..Len(authLog) :
                authLog[j].user # EmptyUser /\ authLog[j].pos <= pos
        IsDefault(b) ==
            /\ b # NoBucket
            /\ buckets[b].capacity = DefaultBandwidth
            /\ buckets[b].quantum = FindQuantum(1, DefaultBandwidth)
            /\ buckets[b].fillInterval
                   = (Second * buckets[b].quantum) \div DefaultBandwidth
    IN \A i \in 1..Len(wlog) :
           ~Resolved(wlog[i].pos) =>
               IsDefault(wlog[i].limiter) /\ wlog[i].waited = wlog[i].n


---------------------------------------------------------------------------
(* CONNECT frames for the identity extraction.  The argument is an object  *)
(* with an optional user member and an optional jwt member; a token is     *)
(* built as the tokens of parser_test.go are: base64url of a header, of a  *)
(* claims object, and an empty signature.                                  *)

UserC == <<"c">>

\* a member of an object: absent, a string, or a number
Absent == [t |-> "absent", v |-> <<>>]
Str(v) == [t |-> "string", v |-> v]
Num == [t |-> "number", v |-> <<"1">>]

\* the text "key":value as a one-element list, the empty list when absent
Member(key, val) ==
    IF val.t = "absent" THEN <<>>
    ELSE <<QuotedStr(key) \o <<":">>
           \o (IF val.t = "string" THEN QuotedStr(val.v) ELSE val.v)>>

RECURSIVE Join(_)
Join(ms) ==
    IF ms = <<>> THEN <<>>
    ELSE IF Len(ms) = 1 THEN ms[1]
    ELSE ms[1] \o <<",">> \o Join(Tail(ms))

Object(ms) == <<"{">> \o Join(ms) \o <<"}">>

\* base64.RawURLEncoding.EncodeToString on the bytes from index i
RECURSIVE EncodeToString(_, _)
EncodeToString(s, i) ==
    LET n == Len(s) - i + 1
        Code(c) == (CHOOSE k \in 1..Len(Ascii) : Ascii[k] = c) + 31
        B(v) == Base64URL[(v % 64) + 1]
    IN
    IF n <= 0 THEN <<>>
    ELSE IF n >= 3
    THEN LET w == Code(s[i]) * 65536 + Code(s[i + 1]) * 256 + Code(s[i + 2])
         IN <<B(w \div 262144), B(w \div 4096), B(w \div 64), B(w)>>
            \o EncodeToString(s, i + 3)
    ELSE IF n = 2
    THEN LET w == (Code(s[i]) * 256 + Code(s[i + 1])) * 4
         IN <<B(w \div 4096), B(w \div 64), B(w)>>
    ELSE LET w == Code(s[i]) * 16
         IN <<B(w \div 64), B(w)>>

\* header "{}", the claims object, no signature
Token(name, sub) ==
    EncodeToString(Object(<<>>), 1) \o <<".">>
    \o EncodeToString(Object(Member(Key.name, name) \o Member(Key.sub, sub)), 1)
    \o <<".">>

\* strings that are not a token: one segment, two segments, four segments,
\* a claims segment that is not base64, a claims segment that is not an
\* object, and a header that is not base64 before good claims
BadTokens ==
    { <<"x">>,
      <<"e", "3", "0", ".", "e", "3", "0">>,
      <<"a", ".", "b", ".", "c", ".", "d">>,
      <<"e", "3", "0", ".", "e", ".">>,
      <<"e", "3", "0", ".", "Y", "Q", ".">>,
      <<"x", ".">> \o EncodeToString(Object(Member(Key.name, Str(UserB))), 1) \o <<".">> }

\* the jwt member: absent, a number, a token with its two claims, or a
\* string that is not a token
JwtCases ==
    { [kind |-> "none", name |-> Absent, sub |-> Absent, val |-> v] : v \in {Absent, Num} }
    \cup { [kind |-> "token", name |-> n, sub |-> u, val |-> Str(Token(n, u))] :
             n \in {Absent, Num, Str(UserB), Str(EmptyUser)},
             u \in {Absent, Num, Str(UserC)} }
    \cup { [kind |-> "bad", name |-> Absent, sub |-> Absent, val |-> Str(t)] :
             t \in BadTokens }

UserCases == {Absent, Num, Str(UserA), Str(EmptyUser)}

\* CONNECT {"user":...,"jwt":...}
IdentityFrame(user, jwt) ==
    [line |-> Kw.CONNECT \o <<" ">>
              \o Object(Member(Key.user, user) \o Member(Key.jwt, jwt.val)) \o CRLF,
     payload |-> <<>>, pub |-> FALSE, wf |-> TRUE,
     json |-> TRUE, user |-> user, jwt |-> jwt]

\* CONNECT with an argument that is not a JSON object
BadJSONFrame(arg) ==
    [line |-> Kw.CONNECT \o <<" ">> \o arg \o CRLF,
     payload |-> <<>>, pub |-> FALSE, wf |-> TRUE,
     json |-> FALSE, user |-> Absent,
     jwt |-> [kind |-> "none", name |-> Absent, sub |-> Absent, val |-> Absent]]

IdentityFrames ==
    { IdentityFrame(u, j) : u \in UserCases, j \in JwtCases }
    \cup { BadJSONFrame(a) :
             a \in { <<"{">>, <<"x">>,
                     <<"{">> \o QuotedStr(Key.user) \o <<":", "a", "}">>,
                     <<"{">> \o QuotedStr(Key.user) \o <<":">> \o QuotedStr(UserA) } }

\* the frame that may precede the one under study: none, a user, a token
EarlierFrames ==
    { IdentityFrame(Str(UserA), [kind |-> "none", name |-> Absent, sub |-> Absent, val |-> Absent]),
      IdentityFrame(Absent, [kind |-> "token", name |-> Str(UserB), sub |-> Absent,
                             val |-> Str(Token(Str(UserB), Absent))]) }

IDInit ==
    /\ frames \in { <<f>> : f \in IdentityFrames }
                  \cup { <<g, f>> : g \in EarlierFrames, f \in IdentityFrames }
    /\ cin = Flatten(frames)
    /\ cpos = 0
    /\ res = "run"
    /\ out = <<>>
    /\ wlog = <<>>
    /\ authLog = <<>>
    /\ ConstructedWith(CMPBuffer(LineBufSize), HCAccepted("server"))

SpecID == IDInit /\ [][Next]_vars

\* position of cin at which frame k ends
FrameEnd(k) == Len(Flatten(SubSeq(frames, 1, k)))

\* the callbacks made while frame k was read
CallsIn(k) ==
    {j \in 1..Len(authLog) :
        authLog[j].pos > FrameEnd(k - 1) /\ authLog[j].pos <= FrameEnd(k)}

\* the identity the precedence rule gives for a frame, "" for none
Want(f) ==
    IF f.user.t = "string" THEN f.user.v
    ELSE IF f.jwt.kind = "token" /\ f.jwt.name.t = "string" THEN f.jwt.name.v
    ELSE IF f.jwt.kind = "token" /\ f.jwt.sub.t = "string" THEN f.jwt.sub.v
    ELSE EmptyUser

\* C13: the identity taken from a decoded CONNECT object follows a fixed
\* precedence: a string user member is the identity even when a jwt member
\* is present; otherwise a string jwt member is decoded without verification
\* and its name claim is used if that is a string, else its sub claim if
\* that is a string; otherwise no identity is resolved.
C13_IdentityPrecedence ==
    \A k \in 1..Len(frames) :
        FrameEnd(k) <= cpos =>
            /\ Cardinality(CallsIn(k)) <= 1
            /\ (IF CallsIn(k) = {} THEN EmptyUser
                ELSE authLog[CHOOSE j \in CallsIn(k) : TRUE].user) = Want(frames[k])

\* a CONNECT whose only member is a token naming b, then a CONNECT with the
\* string user a and a token naming b: b, then a, were resolved
C13_Witness ==
    /\ cpos = Len(cin)
    /\ Len(frames) = 2
    /\ frames[1].jwt.kind = "token"
    /\ frames[1].user = Absent
    /\ frames[2].jwt.kind = "token"
    /\ frames[2].user = Str(UserA)
    /\ frames[2].jwt.name = Str(UserB)
    /\ Len(authLog) = 2
    /\ authLog[1].user = UserB
    /\ authLog[2].user = UserA
    /\ rlw.rateLimiter = rlm.limiters[UserA]

\* a CONNECT frame that the claim says resolves nothing: its argument is
\* not JSON, or it has no string user and its jwt is not a token or has
\* neither a string name nor a string sub
Unresolvable(f) ==
    \/ ~f.json
    \/ /\ f.user.t # "string"
       /\ \/ f.jwt.kind = "bad"
          \/ /\ f.jwt.kind = "token"
             /\ f.jwt.name.t # "string"
             /\ f.jwt.sub.t # "string"

\* C14: a CONNECT frame whose argument is not valid JSON, or whose jwt is
\* structurally invalid or has no string name/sub claim, resolves no identity:
\* no callback is made, the active bucket is still the one the earlier frame
\* installed (none for a first frame), ParseAndForward has not returned an
\* error, the parser is in the start state, and the frame's bytes are
\* forwarded unchanged: they are written or wait in the buffer in input order,
\* and all of them are written once ParseAndForward returns nil.
C14_InvalidConnectIgnored ==
    \A k \in 1..Len(frames) :
        ( /\ Unresolvable(frames[k])
          /\ cpos = FrameEnd(k)
          /\ res # "readErr"
          /\ \A i \in 1..Len(wlog) : wlog[i].ok )
        => /\ res \in {"run", "nil"}
           /\ CallsIn(k) = {}
           /\ rlw.rateLimiter = (IF authLog = <<>> THEN NoBucket
                                 ELSE rlm.limiters[authLog[Len(authLog)].user])
           /\ DOMAIN rlm.limiters = {authLog[j].user : j \in 1..Len(authLog)}
           /\ cmp.state = "OP_START"
           /\ out \o SubSeq(cmp.buffer, 1, cmp.bufferPos) = Consumed
           /\ res = "nil" => out = Consumed

\* after a CONNECT that installed a bucket, a CONNECT whose jwt is not a
\* token has been read, the stream has ended and both frames were written;
\* the bucket of the first frame is still installed
C14_Witness ==
    /\ Len(frames) = 2
    /\ frames[2].jwt.kind = "bad"
    /\ frames[2].user.t # "string"
    /\ cpos = Len(cin)
    /\ res = "nil"
    /\ out = cin
    /\ Len(authLog) = 1
    /\ rlw.rateLimiter # NoBucket


---------------------------------------------------------------------------
(* NATSProxyParser (part_005).  The machine record n holds the parser's    *)
(* fields, the locals buf and username of ParseAndForward, the destination *)
(* and the histories; authLog records the LogFunc calls.                   *)

Space == {" ", "\t", CR, LF}

RECURSIVE TrimLeft(_)
TrimLeft(s) == IF s # <<>> /\ Head(s) \in Space THEN TrimLeft(Tail(s)) ELSE s

RECURSIVE TrimRight(_)
TrimRight(s) ==
    IF s # <<>> /\ s[Len(s)] \in Space THEN TrimRight(SubSeq(s, 1, Len(s) - 1)) ELSE s

\* strings.TrimSpace
TrimSpace(s) == TrimRight(TrimLeft(s))

\* strings.HasPrefix
HasPrefix(s, prefix) == Len(s) >= Len(prefix) /\ SubSeq(s, 1, Len(prefix)) = prefix

\* bytes.Fields: the maximal runs of non-space bytes
RECURSIVE Fields(_, _, _)
Fields(s, i, cur) ==
    IF i > Len(s) THEN (IF cur = <<>> THEN <<>> ELSE <<cur>>)
    ELSE IF s[i] \in Space
    THEN (IF cur = <<>> THEN <<>> ELSE <<cur>>) \o Fields(s, i + 1, <<>>)
    ELSE Fields(s, i + 1, Append(cur, s[i]))

RECURSIVE DecimalValue(_, _)
DecimalValue(s, acc) ==
    IF s = <<>> THEN acc ELSE DecimalValue(Tail(s), acc * 10 + (CHOOSE d \in 0..9 : Digit[d + 1] = Head(s)))

\* strconv.Atoi for numbers that fit an int: [ok, val]
Atoi(s) ==
    LET signed == s # <<>> /\ Head(s) \in {"+", "-"}
        digits == IF signed THEN Tail(s) ELSE s
    IN IF digits = <<>> \/ \E i \in 1..Len(digits) : digits[i] \notin Digits
       THEN [ok |-> FALSE, val |-> 0]
       ELSE [ok |-> TRUE,
             val |-> IF signed /\ Head(s) = "-" THEN 0 - DecimalValue(digits, 0)
                     ELSE DecimalValue(digits, 0)]

NPPMachine ==
    [state |-> npp.state, as |-> npp.as, payload |-> npp.payload,
     buf |-> npp.buf, username |-> npp.username,
     out |-> out, wlog |-> wlog, authLog |-> authLog, pos |-> cpos + 1, err |-> ""]

\* w.Write(buf) on the destination
NPPWrite(n, ok) ==
    [n EXCEPT !.out = IF ok THEN @ \o n.buf ELSE @,
              !.err = IF ok THEN @ ELSE "write",
              !.wlog = Append(@, [n |-> Len(n.buf), limiter |-> NoBucket,
                                  waited |-> 0, ok |-> ok, pos |-> n.pos])]

LogFunc(n, user) ==
    [n EXCEPT !.authLog = Append(@, [user |-> user, pos |-> n.pos])]


\* "Detect CONNECT and cache user": the username after the line was seen
\* "if user := p.extractUsernameFromJWT(jwtToken); user != """
JWTUser(user, username) == IF user # EmptyUser THEN user ELSE username

\* the branches on the decoded object j
ObjectUser(j, username) ==
    IF j.ok
    THEN IF IsStringField(j.obj, Key.user) THEN j.obj[Key.user].v
         ELSE IF IsStringField(j.obj, Key.jwt)
         THEN JWTUser(extractUsernameFromJWT(j.obj[Key.jwt].v), username)
         ELSE username
    ELSE username

\* trimmed the line t
TrimmedConnect(t, username) ==
    IF HasPrefix(t, Kw.CONNECT \o <<" ">>)
    THEN ObjectUser(JSONUnmarshal(Slice(t, 8, Len(t))), username)
    ELSE username

DetectConnect(line, username) == TrimmedConnect(TrimSpace(line), username)

\* "username = user", p.LogFunc(direction, line, username), "buf = buf[:0]"
LineDone(w, user) == [LogFunc(w, user) EXCEPT !.username = user, !.buf = <<>>]

\* case psOpStart
PsOpStart(n, b, ok) ==
    IF b \in {"P", "p"} THEN [n EXCEPT !.state = "psOpPub", !.as = Len(n.buf) - 1]
    ELSE IF b \in {"H", "h"} THEN [n EXCEPT !.state = "psOpHPub", !.as = Len(n.buf) - 1]
    ELSE IF b = LF
    THEN LET w == NPPWrite(n, ok) IN
         IF w.err # "" THEN w
         ELSE LineDone(w, DetectConnect(n.buf, n.username))
    ELSE n

\* case psPubArg (minFields = 2) and case psHPubArg (minFields = 3)
PsArg(n, b, minFields) ==
    IF b = LF
    THEN LET line == Slice(n.buf, n.as, Len(n.buf) - 1)
             parts == Fields(line, 1, <<>>)
         IN IF Len(parts) < minFields THEN [n EXCEPT !.state = "psOpStart"]
            ELSE LET size == Atoi(parts[Len(parts)]) IN
                 IF ~size.ok \/ size.val < 0 THEN [n EXCEPT !.state = "psOpStart"]
                 ELSE [n EXCEPT !.payload = size.val, !.state = "psMsgPayload"]
    ELSE n

\* case psMsgPayload
PsMsgPayload(n, ok) ==
    IF Len(n.buf) >= n.as + n.payload + 2
    THEN LET w == NPPWrite(n, ok) IN
         IF w.err # "" THEN w
         ELSE [LogFunc(w, n.username) EXCEPT !.buf = <<>>, !.state = "psOpStart"]
    ELSE n

\* one iteration of the loop for a byte that was read
NPPParseByte(n0, b, ok) ==
    LET n == [n0 EXCEPT !.buf = Append(@, b)] IN
    CASE n.state = "psOpStart" -> PsOpStart(n, b, ok)
      [] n.state = "psOpPub" ->
           [n EXCEPT !.state = IF b \in {"U", "u"} THEN "psOpPubSpc" ELSE "psOpStart"]
      [] n.state = "psOpPubSpc" ->
           IF b \in {" ", "\t"} THEN n
           ELSE [n EXCEPT !.state = "psPubArg", !.as = Len(n.buf) - 1]
      [] n.state = "psPubArg" -> PsArg(n, b, 2)
      [] n.state = "psOpHPub" ->
           [n EXCEPT !.state = IF b \in {"P", "p"} THEN "psOpHPubSpc" ELSE "psOpStart"]
      [] n.state = "psOpHPubSpc" ->
           IF b \in {" ", "\t"} THEN n
           ELSE [n EXCEPT !.state = "psHPubArg", !.as = Len(n.buf) - 1]
      [] n.state = "psHPubArg" -> PsArg(n, b, 3)
      [] n.state = "psMsgPayload" -> PsMsgPayload(n, ok)
      [] OTHER -> n

NPPCommit(n) ==
    /\ npp' = [state |-> n.state, as |-> n.as, payload |-> n.payload,
               buf |-> n.buf, username |-> n.username]
    /\ out' = n.out
    /\ wlog' = n.wlog
    /\ authLog' = n.authLog

\* reader.ReadByte() returns the next byte of the stream
NPPReadByte ==
    /\ res = "run"
    /\ cpos < Len(cin)
    /\ \E ok \in BOOLEAN :
       \E n \in {NPPParseByte(NPPMachine, cin[cpos + 1], ok)} :
         /\ NPPCommit(n)
         /\ res' = IF n.err # "" THEN "writeErr" ELSE "run"
    /\ cpos' = cpos + 1
    /\ UNCHANGED <<frames, cin, notNPP>>

\* reader.ReadByte() returns io.EOF: "return nil"
NPPReadEOF ==
    /\ res = "run"
    /\ res' = "nil"
    /\ UNCHANGED <<frames, cin, cpos, out, wlog, authLog, npp, notNPP>>

\* reader.ReadByte() returns another error: "return err"
NPPReadErr ==
    /\ res = "run"
    /\ res' = "readErr"
    /\ UNCHANGED <<frames, cin, cpos, out, wlog, authLog, npp, notNPP>>

ProxyFrames ==
    ClientFrames \cup
    { JunkFrame(Kw.PUB \o CRLF),
      JunkFrame(Kw.PUB \o <<" ", "s", " ", "x">> \o CRLF),
      JunkFrame(Kw.PUB \o <<" ", "s", " ", "-", "1">> \o CRLF),
      ControlFrame(<<"P", "U", "X", " ", "s", " ", "2">>),
      ControlFrame(<<"c", "o", "n", "n", "e", "c", "t">>
                   \o Slice(ConnectLine(UserA), Len(Kw.CONNECT), Len(ConnectLine(UserA)))) }

NPPInit ==
    /\ StreamInit(ProxyFrames)
    /\ Constructed

NPPNext == NPPReadByte \/ NPPReadEOF \/ NPPReadErr

SpecNPP == NPPInit /\ [][NPPNext]_vars


---------------------------------------------------------------------------
(* Claims about NATSProxyParser *)

\* C3: when NATSProxyParser.ParseAndForward returns at end-of-stream, every
\* byte it read has been written to the destination: the accumulator buf
\* holds no unforwarded byte.
C3_NothingLeftInAccumulator ==
    res = "nil" => (npp.buf = <<>> /\ out = Consumed)

\* positions of cin that hold a payload byte or the CR of the closing CR LF
\* of a publish frame: after reading one of them the countdown is running
RECURSIVE CountdownPositions(_, _)
CountdownPositions(fs, base) ==
    IF fs = <<>> THEN {}
    ELSE LET f == Head(fs)
             n == Len(FrameBytes(f))
         IN (IF f.pub THEN (base + Len(f.line) + 1)..(base + n - 1) ELSE {})
            \cup CountdownPositions(Tail(fs), base + n)

\* positions of cin that end a frame
RECURSIVE FrameEnds(_, _)
FrameEnds(fs, base) ==
    IF fs = <<>> THEN {}
    ELSE {base + Len(FrameBytes(Head(fs)))}
         \cup FrameEnds(Tail(fs), base + Len(FrameBytes(Head(fs))))

\* C4: after a PUB/HPUB argument line with a valid count n, the next n+2
\* bytes are consumed by the payload countdown whatever their values, and
\* only after the last of them is the parser back in the start state, at the
\* first byte of the next frame.
C4_PayloadCountdownExact ==
    (WellFormedStream /\ res = "run") =>
        /\ cpos \in CountdownPositions(frames, 0) => npp.state = "psMsgPayload"
        /\ cpos \in FrameEnds(frames, 0) => (npp.state = "psOpStart" /\ npp.buf = <<>>)

\* C25: publish handling (argument capture, count parsing, payload
\* countdown) is entered only inside a frame whose first bytes spell PUB or
\* HPUB; a mismatch at a keyword position (PUX) diverts to plain line
\* handling.
C25_PublishOnlyAfterKeyword ==
    \A k \in 1..Len(frames) :
        ( /\ FrameEnd(k - 1) < cpos /\ cpos <= FrameEnd(k)
          /\ npp.state \in {"psPubArg", "psHPubArg", "psMsgPayload"} )
        => \/ HasPrefix(frames[k].line, Kw.PUB)
           \/ HasPrefix(frames[k].line, Kw.HPUB)

\* C26: when a PUB argument line has a missing, non-numeric or negative
\* count, the parser is back in the start state with no countdown running,
\* ParseAndForward has reported no error, and the frame's bytes are forwarded
\* verbatim: written or waiting in the accumulator in input order, and all
\* written once ParseAndForward has returned nil.
C26_BadCountForwarded ==
    \A k \in 1..Len(frames) :
        ( /\ ~frames[k].wf /\ HasPrefix(frames[k].line, Kw.PUB)
          /\ cpos = FrameEnd(k)
          /\ res # "readErr"
          /\ \A i \in 1..Len(wlog) : wlog[i].ok )
        => /\ res \in {"run", "nil"}
           /\ npp.state = "psOpStart"
           /\ out \o npp.buf = Consumed
           /\ res = "nil" => out = Consumed

\* C30: the CONNECT keyword is matched case-insensitively: once a frame
\* that spells CONNECT in upper or lower case, followed by {"user":"u"} and
\* CR LF, has been read and forwarded, the identity is u.
C30_ConnectAnyCase ==
    LET Upper == ("c" :> "C") @@ ("o" :> "O") @@ ("n" :> "N") @@ ("e" :> "E")
                 @@ ("t" :> "T")
        Spelled(f, u) ==
            /\ Len(f.line) = Len(ConnectLine(u)) + 2
            /\ [i \in 1..Len(f.line) |->
                   IF i <= Len(Kw.CONNECT) /\ f.line[i] \in DOMAIN Upper
                   THEN Upper[f.line[i]] ELSE f.line[i]] = ConnectLine(u) \o CRLF
    IN \A k \in 1..Len(frames) : \A u \in {UserA, UserB} :
           ( /\ Spelled(frames[k], u)
             /\ cpos = FrameEnd(k)
             /\ res = "run"
             /\ \A i \in 1..Len(wlog) : wlog[i].ok )
           => npp.username = u

\* C24: a frame is closed only by an LF that immediately follows a CR: an
\* LF with no CR before it, or with other bytes between the CR and it, does
\* not close the line and triggers no flush.  Every write made outside a
\* declared payload is made at an LF whose previous byte is a CR.
C24_OnlyCRLFClosesFrame ==
    \A i \in 1..Len(wlog) :
        LET p == wlog[i].pos IN
        p \notin PayloadPositions(frames, 0)
            => (cin[p] = LF /\ p >= 2 /\ cin[p - 1] = CR)

\* C15: outside a payload countdown, once the parser has consumed an LF that
\* immediately follows a CR, the frame is closed and every buffered byte has
\* been written before the next byte is read: the accumulator is empty and
\* the output is the input consumed so far.  This includes a PUB/HPUB
\* argument line that fails to parse.
C15_CRLFAlwaysFlushes ==
    ( /\ res = "run"
      /\ cpos >= 2
      /\ SubSeq(cin, cpos - 1, cpos) = CRLF
      /\ cpos \notin PayloadPositions(frames, 0)
      /\ npp.state # "psMsgPayload" )
    => (npp.buf = <<>> /\ out = Consumed)


---------------------------------------------------------------------------
(* ClientMessageParser, the variant whose ParseAndForward takes the reader *)
(* and the writer (internal/server/parser.go, second definition), which    *)
(* HandleConnection of part_004 runs on the client-to-upstream flow.  The  *)
(* start state, the keyword states and the CONNECT decoding are those of   *)
(* the fixed-buffer variant.                                               *)

RWPMachine ==
    [state |-> rwp.state, as |-> rwp.as, drop |-> rwp.drop,
     rateLimiter |-> rwp.rateLimiter, buf |-> rwp.buf,
     limiters |-> rlm.limiters, buckets |-> buckets,
     out |-> out, wlog |-> wlog, authLog |-> authLog, pos |-> cpos + 1, err |-> "",
     now |-> now, late |-> 0]

\* w.Write(buf): the destination is written directly
RWPWrite(m, ok) ==
    [m EXCEPT !.out = IF ok THEN @ \o m.buf ELSE @,
              !.err = IF ok THEN @ ELSE "write",
              !.wlog = Append(@, [n |-> Len(m.buf), limiter |-> m.rateLimiter,
                                  waited |-> 0, ok |-> ok, pos |-> m.pos,
                                  at |-> m.now])]

\* case OP_RATE_LIMIT
OpRateLimit(m) ==
    IF m.rateLimiter # NoBucket THEN Wait(m, 1) ELSE m

\* case CONNECT_ARG; the slice expression panics when its bounds are inverted
RWPConnectArg(m, b) ==
    IF b = CR THEN [m EXCEPT !.drop = 1]
    ELSE IF b = LF /\ m.drop > 0
    THEN IF m.as < 0 \/ m.as > Len(m.buf) - 2
         THEN [m EXCEPT !.err = "panic"]
         ELSE [ConnectIdentity(m, Slice(m.buf, m.as, Len(m.buf) - 2))
                 EXCEPT !.drop = 0, !.state = "OP_START"]
    ELSE m

\* switch c.state
RWPOnByte(m, b) ==
    CASE m.state = "OP_START" -> [m EXCEPT !.state = OpStart(b)]
      [] m.state \in DOMAIN KeywordStep ->
           [m EXCEPT !.state = IF b \in KeywordStep[m.state].accept
                               THEN KeywordStep[m.state].next
                               ELSE "OP_IGNORE"]
      [] m.state \in {"OP_HPUB", "OP_PUB"} ->
           [m EXCEPT !.state = IF b \in {" ", "\t"} THEN "OP_RATE_LIMIT"
                               ELSE "OP_IGNORE"]
      [] m.state = "OP_CONNECT" ->
           IF b \in {" ", "\t"} THEN m
           ELSE [m EXCEPT !.state = "CONNECT_ARG", !.as = Len(m.buf) - 1]
      [] m.state = "CONNECT_ARG" -> RWPConnectArg(m, b)
      [] m.state = "OP_RATE_LIMIT" -> OpRateLimit(m)
      [] OTHER -> m

\* the CR/LF bookkeeping after the switch
RWPTerminator(m, b, ok) ==
    LET m1 == IF m.drop = 0 /\ b = CR THEN [m EXCEPT !.drop = 1] ELSE m IN
    IF m1.drop = 1 /\ b = LF
    THEN LET w == RWPWrite([m1 EXCEPT !.drop = 0, !.state = "OP_START"], ok) IN
         IF w.err # "" THEN w ELSE [w EXCEPT !.buf = <<>>]
    ELSE m1

\* one iteration of the loop for a byte that was read; the `continue` of
\* case OP_CONNECT skips the bookkeeping
RWPAfterSwitch(m1, b, ok) ==
    IF m1.err # "" THEN m1 ELSE RWPTerminator(m1, b, ok)

RWPParseByte(m0, b, ok) ==
    LET m == [m0 EXCEPT !.buf = Append(@, b)] IN
    IF m.state = "OP_CONNECT" /\ b \in {" ", "\t"} THEN m
    ELSE RWPAfterSwitch(RWPOnByte(m, b), b, ok)

RWPCommit(m) ==
    /\ rwp' = [state |-> m.state, as |-> m.as, drop |-> m.drop,
               rateLimiter |-> m.rateLimiter, buf |-> m.buf, call |-> rwp.call]
    /\ rlm' = [limiters |-> m.limiters]
    /\ buckets' = m.buckets
    /\ out' = m.out
    /\ wlog' = m.wlog
    /\ authLog' = m.authLog
    /\ now' = m.now

\* reader.ReadByte() returns the next byte of the stream
RWPReadByte ==
    /\ res = "run"
    /\ cpos < Len(cin)
    /\ \E ok \in BOOLEAN, late \in Lateness :
       \E m \in {RWPParseByte([RWPMachine EXCEPT !.late = late], cin[cpos + 1], ok)} :
         /\ RWPCommit(m)
         /\ res' = CASE m.err = "write" -> "writeErr"
                     [] m.err = "panic" -> "panic"
                     [] OTHER -> "run"
    /\ cpos' = cpos + 1
    /\ UNCHANGED <<frames, cin, notRWP>>

\* reader.ReadByte() returns io.EOF: "return nil"
RWPReadEOF ==
    /\ res = "run"
    /\ res' = "nil"
    /\ UNCHANGED <<frames, cin, cpos, out, wlog, authLog, rlm, buckets, rwp, now, notRWP>>

\* reader.ReadByte() returns another error: "return err"
RWPReadErr ==
    /\ res = "run"
    /\ res' = "readErr"
    /\ UNCHANGED <<frames, cin, cpos, out, wlog, authLog, rlm, buckets, rwp, now, notRWP>>

\* the reader ended before the stream did, and ParseAndForward is called
\* again on the same parser with a reader for the rest: buf is a new local
\* slice, the fields of c are as the last call left them
RWPCallAgain ==
    /\ res = "nil"
    /\ rwp.call < MaxReaders
    /\ cpos < Len(cin)
    /\ res' = "run"
    /\ rwp' = [rwp EXCEPT !.buf = <<>>, !.call = @ + 1]
    /\ UNCHANGED <<frames, cin, cpos, out, wlog, authLog, rlm, buckets, now, notRWP>>

RWPNext == RWPReadByte \/ RWPReadEOF \/ RWPReadErr \/ RWPCallAgain

SpecRWP == Init /\ [][RWPNext]_vars

\* ParseAndForward called once on a reader holding the first k bytes of the
\* stream, every write succeeding: the parser and what it has forwarded
\* after the k-th byte
OneCallStep(p, k) ==
    IF p.err # "" THEN p ELSE RWPParseByte([p EXCEPT !.pos = k], cin[k], TRUE)

RECURSIVE OneCall(_)
OneCall(k) ==
    IF k = 0
    THEN [state |-> RWPInitial.state, as |-> RWPInitial.as, drop |-> RWPInitial.drop,
          rateLimiter |-> NoBucket, buf |-> <<>>,
          limiters |-> <<>>, buckets |-> <<>>,
          out |-> <<>>, wlog |-> <<>>, authLog |-> <<>>, pos |-> 1, err |-> "",
          now |-> 0, late |-> 0]
    ELSE OneCallStep(OneCall(k - 1), k)

\* C29: the state of a ClientMessageParser persists across successive
\* ParseAndForward(r, w) calls: when the stream reaches the parser through
\* two readers, split at any byte, then after every byte the bytes
\* forwarded, the identities resolved and the active rate limiter are those
\* of one call on the whole stream, and no call fails with an out-of-range
\* access.
C29_SplitEqualsOneCall ==
    /\ res # "panic"
    /\ (res \in {"run", "nil"} /\ \A i \in 1..Len(wlog) : wlog[i].ok)
       => \E ref \in {OneCall(cpos)} :
              ref.err = ""
              => /\ out = ref.out
                 /\ [i \in 1..Len(authLog) |-> authLog[i].user]
                    = [i \in 1..Len(ref.authLog) |-> ref.authLog[i].user]
                 /\ rwp.rateLimiter = ref.rateLimiter


RECURSIVE BytesThrough(_, _)
\* the bytes handed to the destination while bucket b was the active one
BytesThrough(log, b) ==
    IF log = <<>> THEN 0
    ELSE (IF log[1].limiter = b THEN log[1].n ELSE 0) + BytesThrough(Tail(log), b)

\* C7: once an identity has selected a bucket, every write of k accumulated
\* bytes to the upstream writer comes after a consume of exactly k tokens on
\* the bucket that is active at that write, so each bucket has been debited
\* exactly the number of bytes written while it was the active one.
C7_FlushConsumesItsLength ==
    /\ \A i \in 1..Len(wlog) :
         wlog[i].limiter # NoBucket => wlog[i].waited = wlog[i].n
    /\ \A b \in DOMAIN buckets : buckets[b].taken = BytesThrough(wlog, b)


---------------------------------------------------------------------------
(* RateLimiterManager called from several goroutines (part_006).  thr[t]   *)
(* is the position of goroutine t inside the method it runs, with its      *)
(* locals; mu.readers are the goroutines between RLock and RUnlock,        *)
(* mu.writer the one between Lock and Unlock (0 when there is none).       *)
(* reg is history: the (username, bucket) pairs created and handed out by  *)
(* GetLimiter, the usernames RemoveLimiter was called for, and the number  *)
(* of calls made so far.                                                   *)

RegistryUsers == {EmptyUser, UserA, UserB}

\* a GetLimiter that creates without looking again under the write lock
DoubleCheckSkipped(limiters, username) == FALSE

\* "Double-check in case another goroutine created it while we were waiting"
DoubleCheck(limiters, username) == username \in DOMAIN limiters

\* a Lock that does not wait for the readers to leave
CanLockBesideReaders(m) == m.writer = 0

\* rlm.mu.Lock() of sync.RWMutex goes through when nobody holds the lock
CanLock(m) == m.writer = 0 /\ m.readers = {}

\* a GetLimiter that lets the empty username through to the registry
EmptyUsernameAccepted(username) == FALSE

\* if username == ""
EmptyUsername(username) == username = EmptyUser

\* GetLimiter is entered
CallGetLimiter(t, username) ==
    /\ thr[t].pc = "idle"
    /\ reg.calls < MaxCalls
    /\ thr' = [thr EXCEPT ![t] =
                 [@ EXCEPT !.username = username,
                           !.limiter = NoBucket, !.exists = FALSE, !.ret = NoBucket,
                           !.pc = "GL_entry"]]
    /\ reg' = [reg EXCEPT !.calls = @ + 1]
    /\ UNCHANGED <<rlm, buckets, mu, notRLM>>

\* if username == "" { return nil }
GLEntry(t) ==
    /\ thr[t].pc = "GL_entry"
    /\ thr' = [thr EXCEPT ![t].pc =
                 IF EmptyUsername(thr[t].username) THEN "idle" ELSE "GL_RLock"]
    /\ UNCHANGED <<rlm, buckets, mu, reg, notRLM>>

\* rlm.mu.RLock()
GLRLock(t) ==
    /\ thr[t].pc = "GL_RLock"
    /\ mu.writer = 0
    /\ mu' = [mu EXCEPT !.readers = @ \cup {t}]
    /\ thr' = [thr EXCEPT ![t].pc = "GL_read"]
    /\ UNCHANGED <<rlm, buckets, reg, notRLM>>

\* limiter, exists := rlm.limiters[username]
GLRead(t) ==
    /\ thr[t].pc = "GL_read"
    /\ LET u == thr[t].username
           exists == u \in DOMAIN rlm.limiters
       IN thr' = [thr EXCEPT ![t] =
                    [@ EXCEPT !.exists = exists,
                              !.limiter = IF exists THEN rlm.limiters[u] ELSE NoBucket,
                              !.pc = "GL_RUnlock"]]
    /\ UNCHANGED <<rlm, buckets, mu, reg, notRLM>>

\* rlm.mu.RUnlock(); if exists { return limiter }
GLRUnlock(t) ==
    /\ thr[t].pc = "GL_RUnlock"
    /\ mu' = [mu EXCEPT !.readers = @ \ {t}]
    /\ IF thr[t].exists
       THEN /\ thr' = [thr EXCEPT ![t] = [@ EXCEPT !.ret = thr[t].limiter, !.pc = "idle"]]
            /\ reg' = [reg EXCEPT !.handed = @ \cup {<<thr[t].username, thr[t].limiter>>}]
       ELSE /\ thr' = [thr EXCEPT ![t].pc = "GL_Lock"]
            /\ UNCHANGED reg
    /\ UNCHANGED <<rlm, buckets, notRLM>>

\* rlm.mu.Lock()
GLLock(t) ==
    /\ thr[t].pc = "GL_Lock"
    /\ CanLock(mu)
    /\ mu' = [mu EXCEPT !.writer = t]
    /\ thr' = [thr EXCEPT ![t].pc = "GL_locked"]
    /\ UNCHANGED <<rlm, buckets, reg, notRLM>>

\* the section under the write lock, up to the return and the deferred Unlock
GLLocked(t) ==
    /\ thr[t].pc = "GL_locked"
    /\ LET u == thr[t].username IN
       IF DoubleCheck(rlm.limiters, u)
       THEN /\ thr' = [thr EXCEPT ![t] = [@ EXCEPT !.ret = rlm.limiters[u], !.pc = "idle"]]
            /\ reg' = [reg EXCEPT !.handed = @ \cup {<<u, rlm.limiters[u]>>}]
            /\ UNCHANGED <<rlm, buckets>>
       ELSE LET g == CreateLimiter(rlm.limiters, buckets, u, now) IN
            /\ rlm' = [limiters |-> g.limiters]
            /\ buckets' = g.buckets
            /\ thr' = [thr EXCEPT ![t] =
                         [@ EXCEPT !.limiter = g.ret, !.ret = g.ret, !.pc = "idle"]]
            /\ reg' = [reg EXCEPT !.made = @ \cup {<<u, g.ret>>},
                                  !.handed = @ \cup {<<u, g.ret>>}]
    /\ mu' = [mu EXCEPT !.writer = 0]
    /\ UNCHANGED notRLM

\* RemoveLimiter is entered
CallRemoveLimiter(t, username) ==
    /\ thr[t].pc = "idle"
    /\ reg.calls < MaxCalls
    /\ thr' = [thr EXCEPT ![t] =
                 [@ EXCEPT !.username = username, !.pc = "RM_Lock"]]
    /\ reg' = [reg EXCEPT !.removed = @ \cup {username}, !.calls = @ + 1]
    /\ UNCHANGED <<rlm, buckets, mu, notRLM>>

\* rlm.mu.Lock()
RMLock(t) ==
    /\ thr[t].pc = "RM_Lock"
    /\ CanLock(mu)
    /\ mu' = [mu EXCEPT !.writer = t]
    /\ thr' = [thr EXCEPT ![t].pc = "RM_locked"]
    /\ UNCHANGED <<rlm, buckets, reg, notRLM>>

\* delete(rlm.limiters, username), and the deferred Unlock
RMLocked(t) ==
    /\ thr[t].pc = "RM_locked"
    /\ rlm' = [limiters |-> [u \in DOMAIN rlm.limiters \ {thr[t].username}
                               |-> rlm.limiters[u]]]
    /\ mu' = [mu EXCEPT !.writer = 0]
    /\ thr' = [thr EXCEPT ![t].pc = "idle"]
    /\ UNCHANGED <<buckets, reg, notRLM>>

\* GetStats is entered
CallGetStats(t) ==
    /\ thr[t].pc = "idle"
    /\ reg.calls < MaxCalls
    /\ thr' = [thr EXCEPT ![t].pc = "GS_RLock"]
    /\ reg' = [reg EXCEPT !.calls = @ + 1]
    /\ UNCHANGED <<rlm, buckets, mu, notRLM>>

\* rlm.mu.RLock()
GSRLock(t) ==
    /\ thr[t].pc = "GS_RLock"
    /\ mu.writer = 0
    /\ mu' = [mu EXCEPT !.readers = @ \cup {t}]
    /\ thr' = [thr EXCEPT ![t].pc = "GS_locked"]
    /\ UNCHANGED <<rlm, buckets, reg, notRLM>>

\* the range over rlm.limiters with limiter.Available(), the return and the
\* deferred RUnlock
GSLocked(t) ==
    /\ thr[t].pc = "GS_locked"
    /\ LET listed == {rlm.limiters[u] : u \in DOMAIN rlm.limiters} IN
       /\ buckets' = [b \in DOMAIN buckets |->
                        IF b \in listed THEN Available(buckets[b], now).tb
                        ELSE buckets[b]]
       /\ thr' = [thr EXCEPT ![t] =
                    [@ EXCEPT !.stats = [u \in DOMAIN rlm.limiters |->
                                           Available(buckets[rlm.limiters[u]], now).ret],
                              !.pc = "idle"]]
    /\ mu' = [mu EXCEPT !.readers = @ \ {t}]
    /\ UNCHANGED <<rlm, reg, notRLM>>

RLMNext ==
    \E t \in Threads :
        \/ \E u \in RegistryUsers : CallGetLimiter(t, u)
        \/ GLEntry(t)
        \/ GLRLock(t) \/ GLRead(t) \/ GLRUnlock(t) \/ GLLock(t) \/ GLLocked(t)
        \/ \E u \in RegistryUsers : CallRemoveLimiter(t, u)
        \/ RMLock(t) \/ RMLocked(t)
        \/ CallGetStats(t) \/ GSRLock(t) \/ GSLocked(t)

\* no client stream: the registry is exercised through its methods only
NoStream ==
    /\ frames = <<>>
    /\ cin = <<>>
    /\ cpos = 0
    /\ res = "run"
    /\ out = <<>>
    /\ wlog = <<>>
    /\ authLog = <<>>

RLMInit == NoStream /\ Constructed

SpecRLM == RLMInit /\ [][RLMNext]_vars

---------------------------------------------------------------------------
(* Flows that write through the bucket GetLimiter returned to them         *)
(* (RateLimitedWriter.Write, parser.go) while other goroutines are inside  *)
(* the RateLimiterManager.  There are two flows, user A's and user B's;    *)
(* the bucket a flow writes through is thr[t].ret, resolved once as a      *)
(* connection does after CONNECT.  Time passes only while some flow sleeps *)
(* in Wait, and may stand still for ever.                                  *)

\* a Write that keeps the registry's read lock for as long as it waits
WriteUnderRLock(t) == {t}

\* the registry locks RateLimitedWriter.Write takes before Wait: none
WriteLocks(t) == {}

WriteSizes == {1, MaxLines}

\* goroutine 1 is user A's flow, goroutine 2 user B's
Flows == {1, 2}

FlowUserOf(t) == IF t = 1 THEN UserA ELSE UserB

\* rlw.rateLimiter.Wait(int64(len(data))): the tokens are taken and the
\* goroutine sleeps until they are due
RLWWait(t, n) ==
    /\ thr[t].pc = "idle"
    /\ thr[t].ret # NoBucket
    /\ buckets[thr[t].ret].taken < MaxBytes
    /\ \E r \in {Take(buckets[thr[t].ret], now, n)} :
           /\ buckets' = [buckets EXCEPT ![thr[t].ret] = r.tb]
           /\ thr' = [thr EXCEPT ![t] =
                        [@ EXCEPT !.pc = "RLW_Wait", !.wake = now + r.wait]]
    /\ mu' = [mu EXCEPT !.readers = @ \cup WriteLocks(t)]
    /\ UNCHANGED <<rlm, reg, notRLM>>

\* the sleep is over: return rlw.writer.Write(data)
RLWWritten(t) ==
    /\ thr[t].pc = "RLW_Wait"
    /\ thr[t].wake <= now
    /\ thr' = [thr EXCEPT ![t].pc = "idle"]
    /\ mu' = [mu EXCEPT !.readers = @ \ WriteLocks(t)]
    /\ UNCHANGED <<rlm, buckets, reg, notRLM>>

\* the clock reaches the end of the earliest sleep
SleepEnds ==
    \E w \in {thr[t].wake : t \in {c \in Flows : thr[c].pc = "RLW_Wait"}} :
        /\ w > now
        /\ w <= MaxTime
        /\ \A t \in Flows : (thr[t].pc = "RLW_Wait" /\ thr[t].wake > now)
                                => w <= thr[t].wake
        /\ now' = w
        /\ UNCHANGED <<streamVars, cmp, rlw, npp, rwp, conns, flow, hc, srv,
                       rlm, buckets, thr, mu, reg>>

\* what goroutine t does next inside GetLimiter or GetStats
InRegistry(t) ==
    \/ GLEntry(t)
    \/ GLRLock(t) \/ GLRead(t) \/ GLRUnlock(t) \/ GLLock(t) \/ GLLocked(t)
    \/ GSRLock(t) \/ GSLocked(t)

BPNext ==
    \/ \E t \in Flows :
          \/ thr[t].ret = NoBucket /\ CallGetLimiter(t, FlowUserOf(t))
          \/ CallGetStats(t)
          \/ InRegistry(t)
          \/ \E n \in WriteSizes : RLWWait(t, n)
          \/ RLWWritten(t)
    \/ SleepEnds

SpecBP == RLMInit /\ [][BPNext]_vars

\* every goroutine that can take a step takes one; the clock need not move
SpecBPFair ==
    SpecBP /\ \A t \in Flows : WF_vars(InRegistry(t)) /\ WF_vars(RLWWritten(t))

\* the same, and time keeps advancing
SpecBPTime == SpecBPFair /\ WF_vars(SleepEnds)

\* C36: provided time keeps advancing, every Wait issued by a Write of the
\* client-to-upstream path returns and the bytes are then written, also
\* when the size of the write exceeds the bucket's capacity.
C36_WaitReturns ==
    \A t \in Flows : (thr[t].pc = "RLW_Wait") ~> (thr[t].pc = "idle")

\* user A's flow has written more bytes than its bucket's capacity in one
\* Write: it slept until the debt was refilled and then went on
C36_Witness ==
    /\ thr[1].pc = "idle"
    /\ thr[1].ret # NoBucket
    /\ buckets[thr[1].ret].capacity = AliceBandwidth
    /\ buckets[thr[1].ret].taken = MaxLines
    /\ MaxLines > AliceBandwidth
    /\ thr[1].wake > 0
    /\ now >= thr[1].wake

---------------------------------------------------------------------------
(* Claims about the RateLimiterManager *)

MadeFor(u) == {p \in reg.made : p[1] = u}

\* C8: for a non-empty username no RemoveLimiter was ever called for,
\* however the GetLimiter calls for it interleave, at most one bucket is
\* created for it and every caller is handed that bucket.
C8_OneBucketForConcurrentLookups ==
    \A u \in RegistryUsers \ {EmptyUser} :
        u \notin reg.removed =>
            /\ Cardinality(MadeFor(u)) <= 1
            /\ \A p \in reg.handed : p[1] = u => p \in MadeFor(u)

\* two goroutines both missed the username under the read lock, both went
\* through the write lock, and both returned the same bucket
C8_Witness ==
    \E t1, t2 \in Threads :
        /\ t1 # t2
        /\ UserB \notin reg.removed
        /\ thr[t1].pc = "idle" /\ thr[t2].pc = "idle"
        /\ thr[t1].username = UserB /\ thr[t2].username = UserB
        /\ ~thr[t1].exists /\ ~thr[t2].exists
        /\ thr[t1].ret # NoBucket
        /\ thr[t1].ret = thr[t2].ret
        /\ Cardinality(MadeFor(UserB)) = 1

\* C9: over the life of the process, whatever the interleaving of
\* GetLimiter and RemoveLimiter calls, no two distinct buckets are handed
\* out for the same username.
C9_AtMostOneBucketPerUsername ==
    \A p, q \in reg.handed : p[1] = q[1] => p[2] = q[2]

\* C22: a flow waiting for user A's tokens blocks nobody else: while it
\* waits it holds no lock of the registry and what it waits for is the
\* deficit of its own bucket, and every goroutine that has entered
\* GetLimiter or GetStats, and every write whose tokens are due, gets to
\* its return even if the waiting flow's clock never moves.
C22_WaitBlocksNobodyElse ==
    /\ [](\A t \in Flows :
             (thr[t].pc = "RLW_Wait" /\ thr[t].wake > now)
             => /\ t \notin mu.readers /\ mu.writer # t
                /\ Available(buckets[thr[t].ret], now).ret < 0)
    /\ \A u \in Flows :
           (thr[u].pc \notin {"idle", "RLW_Wait"} \/
            (thr[u].pc = "RLW_Wait" /\ thr[u].wake <= now))
               ~> (thr[u].pc = "idle")

\* a flow sleeps in Wait on user A's bucket while another goroutine, inside
\* GetLimiter for user B, holds the registry's write lock
C22_Witness ==
    \E t, u \in Flows :
        /\ thr[t].pc = "RLW_Wait" /\ thr[t].wake > now
        /\ thr[t].username = UserA
        /\ thr[u].pc = "GL_locked" /\ thr[u].username = UserB
        /\ mu.writer = u

\* C38: in every interleaving of GetLimiter, RemoveLimiter and GetStats the
\* registry map is changed only by the goroutine that holds the exclusive
\* lock, a goroutine at a read of the map holds the shared or the exclusive
\* lock, and no goroutine is at a read while another holds the exclusive
\* lock.
C38_ReaderWriterDiscipline ==
    /\ [](\A t \in Threads :
             /\ thr[t].pc \in {"GL_read", "GS_locked"}
                => t \in mu.readers /\ mu.writer = 0
             /\ thr[t].pc \in {"GL_locked", "RM_locked"}
                => /\ mu.writer = t
                   /\ \A u \in Threads \ {t} :
                          thr[u].pc \notin {"GL_read", "GS_locked", "GL_locked", "RM_locked"})
    /\ [][rlm' # rlm
            => \E t \in Threads : /\ mu.writer = t
                                   /\ thr[t].pc \in {"GL_locked", "RM_locked"}
                                   /\ thr'[t] # thr[t]]_vars

\* RemoveLimiter holds the exclusive lock over a registry that has an entry
\* while GetStats waits for the shared lock
C38_Witness ==
    \E t, u \in Threads :
        /\ thr[t].pc = "RM_locked" /\ mu.writer = t
        /\ thr[u].pc = "GS_RLock"
        /\ rlm.limiters # <<>>

\* C27: GetLimiter called with the empty username returns nil and leaves
\* the registry as it was: the step that decides on the username returns
\* with no bucket and changes neither the registry map, nor a bucket, nor
\* the lock, whatever the registry holds; no entry for the empty username
\* ever exists.
C27_EmptyUsernameReturnsNil ==
    /\ [](/\ EmptyUser \notin DOMAIN rlm.limiters
          /\ \A p \in reg.made \cup reg.handed : p[1] # EmptyUser)
    /\ [][\A t \in Threads :
            ( /\ thr[t].pc = "GL_entry" /\ thr[t].username = EmptyUser
              /\ thr'[t] # thr[t] )
            => /\ thr'[t].pc = "idle"
               /\ thr'[t].ret = NoBucket
               /\ UNCHANGED <<rlm, buckets, mu>>]_vars

\* a goroutine created a bucket and then called GetLimiter with the empty
\* username: it is back outside the registry with a nil result and the
\* registry still holds the bucket
C27_Witness ==
    /\ reg.made # {} /\ reg.removed = {}
    /\ rlm.limiters # <<>>
    /\ \A t \in Threads :
           /\ thr[t].pc = "idle"
           /\ thr[t].username = EmptyUser
           /\ thr[t].ret = NoBucket

---------------------------------------------------------------------------
(* HandleConnection of internal/server/proxy.go: the client-to-upstream    *)
(* goroutine of each connection runs a NATSProxyParser whose LogFunc and   *)
(* RateLimit callbacks are closures over the goroutine's variables         *)
(* rateLimiter and currentUser.  conns[c] holds those two variables, the   *)
(* parser's username cache, the time until which the goroutine sleeps and  *)
(* the number of callbacks made so far.                                    *)

ConnLines ==
    { ConnectLine(UserA) \o CRLF, ConnectLine(UserB) \o CRLF, Kw.PING \o CRLF }

RateLimitSizes == {1, BufSize}

\* a LogFunc that makes a bucket at every callback that carries a username
HandlerLogFuncEveryCall(conn, heap, contextUser, t) ==
    IF contextUser # EmptyUser
    THEN LET bandwidth == getBandwidthForUser(contextUser) IN
         [conn |-> [conn EXCEPT !.currentUser = contextUser,
                                !.rateLimiter = Len(heap) + 1],
          buckets |-> Append(heap, NewBucketWithRate(bandwidth, bandwidth, t))]
    ELSE [conn |-> conn, buckets |-> heap]

\* the LogFunc closure called with contextUser at time t: [conn, buckets]
HandlerLogFunc(conn, heap, contextUser, t) ==
    IF contextUser # EmptyUser /\ contextUser # conn.currentUser
    THEN LET bandwidth == getBandwidthForUser(contextUser) IN
         [conn |-> [conn EXCEPT !.currentUser = contextUser,
                                !.rateLimiter = Len(heap) + 1],
          buckets |-> Append(heap, NewBucketWithRate(bandwidth, bandwidth, t))]
    ELSE [conn |-> conn, buckets |-> heap]

\* the parser of connection c has forwarded a line and calls LogFunc with
\* its username cache
ConnLine(c, line) ==
    /\ conns[c].wake <= now
    /\ conns[c].lines < MaxLines
    /\ \E user \in {DetectConnect(line, conns[c].username)} :
       \E r \in {HandlerLogFunc([conns[c] EXCEPT !.username = user, !.lines = @ + 1],
                                buckets, user, now)} :
          /\ conns' = [conns EXCEPT ![c] =
                         [r.conn EXCEPT !.kept =
                              IF r.conn.rateLimiter # conns[c].rateLimiter
                              THEN 0
                              ELSE IF /\ user # EmptyUser
                                      /\ buckets[conns[c].rateLimiter].taken > 0
                              THEN @ + 1 ELSE @]]
          /\ buckets' = r.buckets
    /\ UNCHANGED <<now, notConn>>

\* the parser of connection c calls the RateLimit closure: Wait(size) on the
\* connection's bucket, the goroutine sleeps until the tokens are there
ConnRateLimit(c, size) ==
    /\ conns[c].wake <= now
    /\ conns[c].lines < MaxLines
    /\ IF conns[c].rateLimiter # NoBucket
       THEN \E late \in Lateness :
              LET r == Take(buckets[conns[c].rateLimiter], now, size) IN
              /\ buckets' = [buckets EXCEPT ![conns[c].rateLimiter] = r.tb]
              /\ conns' = [conns EXCEPT ![c] =
                             [@ EXCEPT !.lines = @ + 1,
                                       !.wake = now + r.wait
                                                + (IF r.wait > 0 THEN late ELSE 0)]]
       ELSE /\ conns' = [conns EXCEPT ![c].lines = @ + 1]
            /\ UNCHANGED buckets
    /\ UNCHANGED <<now, notConn>>

\* time passes until the next sleeping goroutine wakes
ConnWake ==
    /\ \E c \in Conns : conns[c].wake > now
    /\ now' = CHOOSE w \in {conns[c].wake : c \in Conns} :
                /\ w > now
                /\ \A c \in Conns : conns[c].wake > now => w <= conns[c].wake
    /\ UNCHANGED <<conns, buckets, notConn>>

ConnNext ==
    \/ \E c \in Conns, line \in ConnLines : ConnLine(c, line)
    \/ \E c \in Conns, size \in RateLimitSizes : ConnRateLimit(c, size)
    \/ ConnWake

SpecConn == RLMInit /\ [][ConnNext]_vars

\* C10: two connections that have resolved usernames hold the same bucket
\* exactly when the usernames are equal: connections of one user debit one
\* bucket, connections of different users never share one.
C10_SameUserSameBucket ==
    \A c1, c2 \in Conns :
        (c1 # c2 /\ conns[c1].currentUser # EmptyUser
                 /\ conns[c2].currentUser # EmptyUser)
        => (conns[c1].currentUser = conns[c2].currentUser
            <=> conns[c1].rateLimiter = conns[c2].rateLimiter)

\* C37: the connection's bucket is replaced only when the parser reports a
\* non-empty username different from the current one; a callback carrying
\* the current username keeps the bucket and leaves every bucket's tokens
\* as they were.
C37_BucketKeptForSameUser ==
    [][\A c \in Conns :
          /\ conns'[c].rateLimiter # conns[c].rateLimiter
             => /\ conns'[c].username # EmptyUser
                /\ conns'[c].username # conns[c].currentUser
                /\ conns'[c].currentUser = conns'[c].username
          /\ conns'[c].kept > conns[c].kept
             => /\ conns'[c].username = conns[c].currentUser
                /\ buckets' = buckets]_vars

\* a connection whose user's bucket was debited and then found in place,
\* tokens untouched, by a later callback of the same user
C37_Witness ==
    \E c \in Conns :
        /\ conns[c].currentUser = UserA
        /\ conns[c].kept = 1
        /\ buckets[conns[c].rateLimiter].taken = 1
        /\ buckets[conns[c].rateLimiter].availableTokens = AliceBandwidth - 1

---------------------------------------------------------------------------
(* One client-to-upstream flow of the fixed-buffer ClientMessageParser,    *)
(* seen at the calls its loop makes: processUser when the CONNECT line of  *)
(* FlowUser is complete, RateLimitedWriter.Write for each flush of k       *)
(* buffered bytes (one byte or a full buffer), and the reads that block    *)
(* while the client is silent.  flow.written counts the bytes written      *)
(* since the identity was resolved; the first ConnectLen of them are the   *)
(* CONNECT line, which is still buffered when processUser runs.            *)

FlowUser == UserB
FlushSizes == {1, BufSize}
ConnectLen == Len(ConnectLine(FlowUser) \o CRLF)

\* processUser(FlowUser): the writer's limiter becomes the user's bucket
FlowResolve ==
    /\ flow.res = "run"
    /\ rlw.rateLimiter = NoBucket
    /\ LET g == GetLimiter(rlm.limiters, buckets, FlowUser, now) IN
       /\ rlm' = [limiters |-> g.limiters]
       /\ buckets' = g.buckets
       /\ rlw' = [rateLimiter |-> g.ret]
    /\ flow' = [flow EXCEPT !.resolvedAt = now, !.lastWrite = now]
    /\ UNCHANGED <<now, notFlow>>

\* RateLimitedWriter.Write(data) with len(data) = k
FlowWrite(k) ==
    /\ flow.res = "run"
    /\ rlw.rateLimiter # NoBucket
    /\ flow.written + k <= MaxWritten
    /\ \E ok \in BOOLEAN, late \in Lateness :
         LET w == Wait([buckets |-> buckets, rateLimiter |-> rlw.rateLimiter,
                        now |-> now, late |-> late], k)
         IN /\ buckets' = w.buckets
            /\ now' = w.now
            /\ flow' = [flow EXCEPT !.written = IF ok THEN @ + k ELSE @,
                                    !.lastWrite = IF ok THEN w.now ELSE @,
                                    !.res = IF ok THEN "run" ELSE "writeErr"]
    /\ UNCHANGED <<rlw, rlm, notFlow>>

\* reader.ReadByte() blocks for a second: the client sends nothing
FlowIdle ==
    /\ flow.res = "run"
    /\ flow.idles < MaxIdles
    /\ now' = now + Second
    /\ flow' = [flow EXCEPT !.idles = @ + 1]
    /\ UNCHANGED <<rlw, rlm, buckets, notFlow>>

FlowNext ==
    \/ FlowResolve
    \/ \E k \in FlushSizes : FlowWrite(k)
    \/ FlowIdle

SpecFlow == RLMInit /\ [][FlowNext]_vars

\* C6: when a flow authenticated as a user of budget R bytes per second has
\* written N bytes after the CONNECT line, R * elapsed >= N - R, where
\* elapsed is the time in seconds from the identity resolution to the write
\* of the last of the N bytes.
C6_ElapsedAtLeastBudget ==
    LET R == getBandwidthForUser(FlowUser)
        N == flow.written - ConnectLen
    IN (rlw.rateLimiter # NoBucket /\ N > 0)
       => (N - R) * Second <= (flow.lastWrite - flow.resolvedAt) * R


---------------------------------------------------------------------------
(* HandleConnection: one accepted connection, from the dial of the         *)
(* upstream broker to the return of the handler.  The client-to-upstream   *)
(* flow runs in a goroutine of its own; the upstream-to-client flow runs   *)
(* in the handler.  The two deferred Close calls run when the handler      *)
(* returns, and nowhere else.  The peers (the client, the broker) send     *)
(* bytes and close their ends whenever they like.  The parsers of the two  *)
(* flows are the ones above; here a flow forwards one byte per step, and a *)
(* CONNECT that names user a may complete at any byte.                     *)

notHC == <<streamVars, cmp, rlw, npp, rwp, thr, mu, reg, conns, flow, srv>>

\* a return that runs upstreamConn.Close() but not clientConn.Close()
ReturnKeepsClient(c) ==
    [c EXCEPT !.handler = "returned",
              !.upstream = IF @ = "none" THEN "none" ELSE "closed"]

\* "return": the deferred clientConn.Close(), and upstreamConn.Close() if
\* the dial had succeeded
Return(c) ==
    [c EXCEPT !.handler = "returned", !.client = "closed",
              !.upstream = IF @ = "none" THEN "none" ELSE "closed"]

\* a failed dial after which net.Dial is called again
DialFailedRetries(c) == [c EXCEPT !.dials = @ + 1]

\* net.Dial returned an error: log it and return
DialFailed(c) == Return([c EXCEPT !.dials = @ + 1])

\* upstreamConn, err := net.Dial(...) succeeds; "defer upstreamConn.Close()",
\* "go func() {...}()", and the handler enters the upstream-to-client flow
\* (which, in the root program, reads through a DefaultBandwidth bucket)
HCDialOk ==
    /\ hc.handler = "dial"
    /\ hc' = [hc EXCEPT !.handler = "sc", !.cs = "run", !.upstream = "open",
                        !.dials = @ + 1,
                        !.scLimiter = IF hc.prog = "root" THEN Len(buckets) + 1
                                      ELSE NoBucket]
    /\ buckets' = IF hc.prog = "root"
                  THEN Append(buckets, NewBucketWithRate(DefaultBandwidth,
                                                         DefaultBandwidth, now))
                  ELSE buckets
    /\ UNCHANGED <<rlm, now, notHC>>

HCDialFail ==
    /\ hc.handler = "dial"
    /\ hc' = DialFailed(hc)
    /\ UNCHANGED <<buckets, rlm, now, notHC>>

\* the bucket of the client-to-upstream flow when a CONNECT names user a:
\* from the registry in part_004, a new bucket in the other two programs
ResolveLimiter(c) ==
    IF c.prog = "part_004" THEN GetLimiter(rlm.limiters, buckets, UserA, now)
    ELSE [limiters |-> rlm.limiters,
          buckets |-> Append(buckets,
                             NewBucketWithRate(getBandwidthForUser(UserA),
                                               getBandwidthForUser(UserA), now)),
          ret |-> Len(buckets) + 1]

\* Wait(1) on bucket b of heap h, nothing for the nil bucket: [tb, wait]
WaitOne(h, b) ==
    IF b # NoBucket THEN Take(h[b], now, 1) ELSE [tb |-> <<>>, wait |-> 0]

\* the goroutine reads a byte from the client and writes it to upstream,
\* through its bucket if it has one
CSForward ==
    /\ hc.cs = "run"
    /\ hc.client = "open" /\ hc.inC > 0
    /\ hc.upstream = "open" /\ hc.peerU = "open"
    /\ \E connect \in BOOLEAN :
       \E g \in {IF connect /\ hc.csLimiter = NoBucket THEN ResolveLimiter(hc)
                 ELSE [limiters |-> rlm.limiters, buckets |-> buckets,
                       ret |-> hc.csLimiter]} :
       \E r \in {WaitOne(g.buckets, g.ret)} :
         /\ hc' = [hc EXCEPT !.inC = @ - 1, !.fromClient = @ + 1,
                             !.toUpstream = @ + 1, !.csLimiter = g.ret]
         /\ rlm' = [limiters |-> g.limiters]
         /\ buckets' = IF g.ret # NoBucket THEN [g.buckets EXCEPT ![g.ret] = r.tb]
                       ELSE g.buckets
         /\ now' = now + r.wait
    /\ UNCHANGED notHC

\* ParseAndForward of the goroutine returns: the read fails on the closed
\* client socket, or reaches end-of-stream, or the write to upstream fails.
\* The goroutine ends; it closes nothing.
CSEnd ==
    /\ hc.cs = "run"
    /\ \/ hc.client = "closed"
       \/ hc.inC = 0 /\ hc.peerC = "closed"
       \/ hc.inC > 0 /\ (hc.upstream = "closed" \/ hc.peerU = "closed")
    /\ hc' = [hc EXCEPT !.cs = "done"]
    /\ UNCHANGED <<buckets, rlm, now, notHC>>

\* the handler reads a byte from upstream and writes it to the client
SCForward ==
    /\ hc.handler = "sc"
    /\ hc.inU > 0 /\ hc.peerC = "open"
    /\ \E r \in {WaitOne(buckets, hc.scLimiter)} :
         /\ hc' = [hc EXCEPT !.inU = @ - 1, !.toClient = @ + 1,
                             !.scTaken = @ + (IF hc.scLimiter # NoBucket THEN 1 ELSE 0),
                             !.scSlept = @ + r.wait]
         /\ buckets' = IF hc.scLimiter # NoBucket
                       THEN [buckets EXCEPT ![hc.scLimiter] = r.tb]
                       ELSE buckets
         /\ now' = now + r.wait
    /\ UNCHANGED <<rlm, notHC>>

\* the upstream-to-client flow ends: upstream is at end-of-stream (or its
\* read fails), or the write to the client fails.  HandleConnection returns.
SCEnd ==
    /\ hc.handler = "sc"
    /\ \/ hc.inU = 0 /\ hc.peerU = "closed"
       \/ hc.inU > 0 /\ hc.peerC = "closed"
    /\ hc' = Return(hc)
    /\ UNCHANGED <<buckets, rlm, now, notHC>>

\* the peers
ClientSend ==
    /\ hc.peerC = "open" /\ hc.client = "open"
    /\ hc.fromClient + hc.inC < MaxBytes
    /\ hc' = [hc EXCEPT !.inC = @ + 1]
    /\ UNCHANGED <<buckets, rlm, now, notHC>>

ClientClose ==
    /\ hc.peerC = "open"
    /\ hc' = [hc EXCEPT !.peerC = "closed"]
    /\ UNCHANGED <<buckets, rlm, now, notHC>>

UpstreamSend ==
    /\ hc.peerU = "open" /\ hc.upstream = "open"
    /\ hc.toClient + hc.inU < MaxBytes
    /\ hc' = [hc EXCEPT !.inU = @ + 1]
    /\ UNCHANGED <<buckets, rlm, now, notHC>>

UpstreamClose ==
    /\ hc.peerU = "open" /\ hc.upstream = "open"
    /\ hc' = [hc EXCEPT !.peerU = "closed"]
    /\ UNCHANGED <<buckets, rlm, now, notHC>>

HCInit ==
    /\ NoStream
    /\ \E p \in Programs : ConstructedWith(CMPInitial, HCAccepted(p))

HCNext ==
    \/ HCDialOk \/ HCDialFail
    \/ CSForward \/ CSEnd
    \/ SCForward \/ SCEnd
    \/ ClientSend \/ ClientClose \/ UpstreamSend \/ UpstreamClose

SpecHC == HCInit /\ [][HCNext]_vars

\* the Go scheduler runs a goroutine that can take a step, and a dial
\* returns; the peers are under no obligation
SpecHCFair ==
    /\ HCInit /\ [][HCNext]_vars
    /\ WF_vars(HCDialOk \/ HCDialFail)
    /\ WF_vars(CSForward) /\ WF_vars(CSEnd)
    /\ WF_vars(SCForward) /\ WF_vars(SCEnd)


---------------------------------------------------------------------------
(* Claims about HandleConnection *)

\* C16: when the upstream-to-client flow has ended, HandleConnection has
\* closed the client socket and the upstream socket, and from then on the
\* client-to-upstream flow eventually terminates.
C16_UpstreamEndClosesBoth ==
    /\ []((hc.handler = "returned" /\ hc.upstream # "none")
            => (hc.client = "closed" /\ hc.upstream = "closed"))
    /\ ((hc.handler = "returned") ~> (hc.cs # "run"))

\* the handler has returned after a successful dial, both sockets are
\* closed, and the goroutine has ended although the client never closed
C16_Witness ==
    /\ hc.handler = "returned"
    /\ hc.client = "closed" /\ hc.upstream = "closed"
    /\ hc.cs = "done"
    /\ hc.peerC = "open"
    /\ hc.fromClient > 0

\* C17: when the client-to-upstream flow ends first, both sockets are
\* eventually closed and the upstream-to-client flow terminates, even if the
\* broker sends nothing more and does not close its side.
C17_ClientEndClosesBoth ==
    (hc.cs = "done" /\ hc.handler = "sc")
        ~> (hc.handler = "returned" /\ hc.client = "closed" /\ hc.upstream = "closed")

\* C19: after a failed dial HandleConnection has closed the client socket
\* and returned; neither flow was started, no byte was read from or written
\* to the client, no bucket and no registry entry was created, and the dial
\* was made once.
C19_DialFailureAborts ==
    (hc.dials > 0 /\ hc.upstream = "none") =>
        /\ hc.handler = "returned"
        /\ hc.client = "closed"
        /\ hc.cs = "none"
        /\ hc.fromClient = 0 /\ hc.toClient = 0 /\ hc.toUpstream = 0
        /\ buckets = <<>> /\ rlm.limiters = <<>>
        /\ hc.dials = 1

\* the dial failed while bytes of the client were waiting to be read
C19_Witness ==
    /\ hc.dials = 1 /\ hc.upstream = "none"
    /\ hc.handler = "returned" /\ hc.client = "closed"
    /\ hc.inC > 0

\* C20: bytes flowing upstream-to-client are never metered: the flow has no
\* bucket, has taken no token and has never slept for one.
C20_UpstreamToClientUnmetered ==
    hc.scLimiter = NoBucket /\ hc.scTaken = 0 /\ hc.scSlept = 0


---------------------------------------------------------------------------
(* The proxy process of internal/server/proxy.go: NewProxy loads the      *)
(* configuration, Start listens and accepts, and every accepted           *)
(* connection runs HandleConnection in a goroutine of its own.  srv.cs[c]  *)
(* holds connection c's sockets and the closure variables of its           *)
(* client-to-upstream goroutine.  A panic in any goroutine ends the        *)
(* process.                                                                *)

notSrv == <<streamVars, cmp, rlw, rlm, npp, rwp, now, thr, mu, reg, conns, flow, hc>>

\* cfg.DefaultBandwidth = 10 * 1024 * 1024
TenMiB == 10485760

\* decoder.Decode(&cfg): a missing key leaves the field's zero value
Decode(file) ==
    [DefaultBandwidth |-> IF file.default_bandwidth = <<>> THEN 0
                          ELSE file.default_bandwidth[1],
     Users |-> file.users]

\* LoadConfig(path): [err, cfg]
LoadConfig(file) ==
    IF file.status = "missing" THEN [err |-> "open", cfg |-> SrvInitial.cfg]
    ELSE IF file.status = "malformed" THEN [err |-> "decode", cfg |-> SrvInitial.cfg]
    ELSE LET cfg == Decode(file) IN
         [err |-> "",
          cfg |-> IF cfg.DefaultBandwidth = 0
                  THEN [cfg EXCEPT !.DefaultBandwidth = TenMiB] ELSE cfg]

\* Proxy.getBandwidthForUser(user)
ProxyBandwidth(cfg, user) ==
    IF user # EmptyUser /\ user \in DOMAIN cfg.Users THEN cfg.Users[user]
    ELSE cfg.DefaultBandwidth

\* the configuration files the process is started on
ConfigFiles ==
    { ConfigFile("missing", <<>>, <<>>),
      ConfigFile("malformed", <<>>, <<>>) }
    \cup { ConfigFile("ok", d, u) :
              d \in {<<>>, <<0>>, <<0 - 1>>, <<1>>, <<DefaultBandwidth>>},
              u \in {<<>>, (UserA :> AliceBandwidth), (UserA :> 0),
                      (UserA :> AliceBandwidth) @@ (UserB :> 0 - 1)} }

\* NewProxy: config, err := LoadConfig(configPath)
SrvLoadConfig ==
    /\ srv.load = "none"
    /\ \E r \in {LoadConfig(srv.file)} :
           srv' = [srv EXCEPT !.load = IF r.err = "" THEN "ok" ELSE r.err,
                              !.cfg = r.cfg]
    /\ UNCHANGED <<buckets, notSrv>>

\* Start: net.Listen succeeds or fails
SrvListen(ok) ==
    /\ srv.load = "ok" /\ srv.proc = "new"
    /\ srv' = [srv EXCEPT !.proc = IF ok THEN "listening" ELSE "listenErr"]
    /\ UNCHANGED <<buckets, notSrv>>

\* listener.Accept() returns an error: it is logged and the loop continues
SrvAcceptErr ==
    /\ srv.proc = "listening"
    /\ srv.acceptErrs < MaxAcceptErrs
    /\ srv' = [srv EXCEPT !.acceptErrs = @ + 1]
    /\ UNCHANGED <<buckets, notSrv>>

\* listener.Accept() returns connection c: go p.HandleConnection(conn)
SrvAccept(c) ==
    /\ srv.proc = "listening"
    /\ srv.cs[c].handler = "none"
    /\ srv' = [srv EXCEPT !.cs[c] = [@ EXCEPT !.handler = "dial", !.client = "open"]]
    /\ UNCHANGED <<buckets, notSrv>>

\* net.Dial in HandleConnection: on an error the handler returns and the
\* deferred clientConn.Close() runs
SrvDial(c, ok) ==
    /\ srv.proc = "listening"
    /\ srv.cs[c].handler = "dial"
    /\ srv' = [srv EXCEPT !.cs[c] =
                 IF ok THEN [@ EXCEPT !.handler = "running", !.upstream = "open"]
                 ELSE [@ EXCEPT !.handler = "returned", !.client = "closed"]]
    /\ UNCHANGED <<buckets, notSrv>>

\* the process dies of a panic: the operating system closes every socket
Crashed(server) ==
    [server EXCEPT !.proc = "crashed",
                   !.cs = [c \in Conns |->
                             [server.cs[c] EXCEPT
                                !.client = IF @ = "open" THEN "closed" ELSE @,
                                !.upstream = IF @ = "open" THEN "closed" ELSE @]]]

\* the client-to-upstream parser of connection c has forwarded a line and
\* calls LogFunc with contextUser; ratelimit.NewBucketWithRate panics when
\* the capacity is not positive
SrvLogFunc(c, contextUser) ==
    /\ srv.proc = "listening"
    /\ srv.cs[c].handler = "running" /\ ~srv.cs[c].csDone
    /\ Len(buckets) < MaxCalls
    /\ IF contextUser # EmptyUser /\ contextUser # srv.cs[c].currentUser
       THEN \E bandwidth \in {ProxyBandwidth(srv.cfg, contextUser)} :
              IF bandwidth <= 0
              THEN /\ srv' = Crashed(srv)
                   /\ UNCHANGED buckets
              ELSE /\ buckets' = Append(buckets,
                                        NewBucketWithRate(bandwidth, bandwidth, now))
                   /\ srv' = [srv EXCEPT !.cs[c] =
                                [@ EXCEPT !.currentUser = contextUser,
                                          !.rateLimiter = Len(buckets) + 1]]
       ELSE UNCHANGED <<srv, buckets>>
    /\ UNCHANGED notSrv

\* the client-to-upstream ParseAndForward of connection c returns (end of
\* stream or I/O error) and its goroutine ends
SrvClientEnd(c) ==
    /\ srv.proc = "listening"
    /\ srv.cs[c].handler = "running" /\ ~srv.cs[c].csDone
    /\ srv' = [srv EXCEPT !.cs[c].csDone = TRUE]
    /\ UNCHANGED <<buckets, notSrv>>

\* the upstream-to-client ParseAndForward of connection c returns and
\* HandleConnection with it: both deferred Close calls run
SrvUpstreamEnd(c) ==
    /\ srv.proc = "listening"
    /\ srv.cs[c].handler = "running"
    /\ srv' = [srv EXCEPT !.cs[c] =
                 [@ EXCEPT !.handler = "returned", !.client = "closed",
                           !.upstream = "closed"]]
    /\ UNCHANGED <<buckets, notSrv>>

SrvNext ==
    \/ SrvLoadConfig
    \/ \E ok \in BOOLEAN : SrvListen(ok)
    \/ SrvAcceptErr
    \/ \E c \in Conns :
          \/ SrvAccept(c)
          \/ \E ok \in BOOLEAN : SrvDial(c, ok)
          \/ \E u \in RegistryUsers : SrvLogFunc(c, u)
          \/ SrvClientEnd(c)
          \/ SrvUpstreamEnd(c)

SrvInit ==
    /\ NoStream
    /\ \E file \in ConfigFiles :
           ConstructedAll(CMPInitial, HCAccepted("server"), SrvNew(file))

SpecSrv == SrvInit /\ [][SrvNext]_vars

\* C32: every configuration a successful LoadConfig returns has a positive
\* DefaultBandwidth and positive user bandwidths, a zero or absent
\* default_bandwidth having been replaced by 10,485,760, and every bucket
\* constructed from it has a positive capacity.
C32_LoadedConfigPositive ==
    srv.load = "ok"
    => /\ srv.cfg.DefaultBandwidth > 0
       /\ \A u \in DOMAIN srv.cfg.Users : srv.cfg.Users[u] > 0
       /\ srv.file.default_bandwidth \in {<<>>, <<0>>}
          => srv.cfg.DefaultBandwidth = TenMiB
       /\ \A b \in 1..Len(buckets) : buckets[b].capacity > 0

\* C31: connections are isolated and the accept loop goes on: a step
\* changes the sockets, the current user and the bucket reference of at
\* most one connection, and once the process listens it keeps listening
\* whatever happens to a connection or to Accept.
C31_ConnectionsIsolated ==
    [][/\ srv.proc = "listening" => srv'.proc = "listening"
       /\ \A c, d \in Conns :
              (srv'.cs[c] # srv.cs[c] /\ srv'.cs[d] # srv.cs[d]) => c = d]_vars

---------------------------------------------------------------------------
(* Claims about the CONNECT argument of the fixed-buffer parser *)

\* offset in a CONNECT line of the first byte after the keyword's whitespace
ArgStart(line) ==
    CHOOSE i \in (Len(Kw.CONNECT) + 1)..Len(line) :
        /\ line[i] \notin {" ", "\t"}
        /\ \A j \in (Len(Kw.CONNECT) + 1)..(i - 1) : line[j] \in {" ", "\t"}

\* C34: while the parser is in CONNECT_ARG inside a CONNECT frame, c.as
\* indexes the first argument byte inside the buffered bytes: the buffer from
\* c.as to bufferPos holds the bytes read from the first argument byte on,
\* whatever the length of the CONNECT line.
C34_ArgStartInsideBuffer ==
    \A k \in 1..Len(frames) :
        ( /\ frames[k].wf /\ HasPrefix(frames[k].line, Kw.CONNECT)
          /\ cmp.state = "CONNECT_ARG" /\ res = "run"
          /\ cpos >= FrameEnd(k - 1) + ArgStart(frames[k].line)
          /\ cpos <= FrameEnd(k)
          /\ \A i \in 1..Len(wlog) : wlog[i].ok )
        => /\ cmp.as < cmp.bufferPos
           /\ Slice(cmp.buffer, cmp.as, cmp.bufferPos)
              = SubSeq(cin, FrameEnd(k - 1) + ArgStart(frames[k].line), cpos)

\* the frames named as predecessors: PING, SUB, PUB and HPUB lines well
\* formed or not, CONNECT
NamedFrame(f) ==
    \E kw \in {Kw.PING, Kw.SUB, Kw.PUB, Kw.HPUB, Kw.CONNECT} : HasPrefix(f.line, kw)

\* C35: a well-formed CONNECT frame with a string user field that starts at
\* a frame boundary resolves that identity whichever of PING, SUB, PUB/HPUB
\* lines (well formed or malformed) and CONNECT came before it: when
\* NATSProxyParser has read and forwarded the frame, its username is the
\* frame's user.
C35_ConnectAfterAnyFrames ==
    \A k \in 1..Len(frames) : \A u \in {UserA, UserB} :
        ( /\ frames[k].line = ConnectLine(u) \o CRLF
          /\ \A j \in 1..(k - 1) : NamedFrame(frames[j])
          /\ cpos = FrameEnd(k)
          /\ res = "run"
          /\ \A i \in 1..Len(wlog) : wlog[i].ok )
        => npp.username = u

===========================================================================
